---------------------------- MODULE Spec2Model ----------------------------
(***************************************************************************)
(* Valoriste: price analysis and deal discovery.                           *)
(*                                                                         *)
(* Money is an integer number of 1/10000 dollar ("units"), so that 12.9%   *)
(* of a whole- or half-dollar amount, 7.99, 12.99 and 0.30 are all exact.  *)
(* ROI and confidence are exact fractions [num, den] with den > 0.         *)
(* A value read from a listing record (a JSON field handed to float()) is  *)
(* a record [parses, dollars]: parses = FALSE is a text float() rejects.   *)
(* Text (titles, keywords, conditions) is a tuple of one-character         *)
(* strings, so that lower() and the substring test are computed.           *)
(***************************************************************************)
EXTENDS Integers, Sequences, FiniteSets, TLC

VARIABLES
    config,            \* Config: the settings the analyzer reads
    user,              \* the User the search runs for
    item,              \* the listing handed to analyze / analyze_item_async
    sold_items,        \* what search_sold_items returned for its title (in a batch: per title)
    analysis,          \* the Optional[PriceAnalysis] that came back
    shown,             \* what print_deal / the web route exposed for it
    apc,               \* position of the single-listing run
    items,             \* the listings the brand search returned
    mode,              \* "sync" (example.main) or "async" (web_app.search)
    filtered_items,    \* result of find_deals_for_user / _async
    price_filtered,    \* its rejection counters
    excluded_filtered,
    analyzed_items,    \* result of analyze_batch / _async: <<item, analysis>> pairs
    deals,             \* what was reported to the user
    pc,                \* position of the deal search
    sizes,             \* the UserSizes whose size filters are built
    size_filters,      \* the size filters built from them
    spc,               \* which size-filter builder ran
    now,               \* the clock, in seconds
    ttl_inclusive,     \* whether the TTLCache installed serves an entry at its expiry instant
    ttl_cache,         \* EbayFindingClient._cache: its entries, least recently used first
    sold_memo,         \* the lru_cache of EbayAPI.search_sold_items: keywords -> entry
    ncalls,            \* number of queries issued
    prev_call,         \* the query before the last one
    last_call,         \* the last query and how it was served
    outcomes,          \* what the listing source does for each brand's query
    fanout_result,     \* how search_multiple_brands_async ended
    find_result,       \* how find_deals_for_user_async ended
    fpc,               \* position of the brand search
    session,           \* EbayAPI.session: "none" or "open"
    clock,             \* the event loop's time, in seconds
    tasks,             \* the search_items_async coroutine of each brand
    requests_sent,     \* the brand queries sent by the EbayAPI client, in order
    caller,            \* the deal search the coroutines run for
    lookups,           \* the sold-items requests of analyze_batch's workers
    coroutines,        \* concurrent EbayFindingClient.search_items calls
    token              \* EbayAPI's tokens and the frames of validate_token

avars == <<item, sold_items, analysis, shown, apc>>
pvars == <<items, mode, filtered_items, price_filtered, excluded_filtered, analyzed_items, deals, pc>>
svars == <<sizes, size_filters, spc>>
cvars == <<now, ttl_inclusive, ttl_cache, sold_memo, ncalls, prev_call, last_call>>
fvars == <<outcomes, fanout_result, find_result, fpc>>
nvars == <<session, clock, tasks, requests_sent, caller, lookups, coroutines, token>>
xvars == <<svars, cvars, fvars, nvars>>
vars == <<config, user, avars, pvars, xvars>>

----------------------------------------------------------------------------
(* Bounds of the model *)

MaxSample == 3         \* longest sold-items response enumerated
MaxItems == 2          \* longest brand-search result enumerated
MaxSizes == 2          \* longest list of top sizes enumerated
MaxCalls == 3          \* number of cached queries issued in a run
MaxTicks == 3          \* number of clock steps in a run
MaxCoroutines == 2     \* number of search_items calls running concurrently
MaxBrands == 2         \* number of brands searched in parallel

----------------------------------------------------------------------------
(* Program constants *)

Scale == 100 * 100                \* units per dollar
AVERAGE_SHIPPING_COST == 79900    \* 7.99
EBAY_FEE_PERMILLE == 129          \* EBAY_FEE_PERCENTAGE 12.9 / 100
ESTIMATED_SHIPPING == 129900      \* 12.99
ASYNC_FIXED_FEE == 3000           \* 0.30
ASYNC_DEAL_THRESHOLD == 20        \* roi >= 20
FULL_CONFIDENCE_SAMPLES == 30     \* len(prices) / 30

----------------------------------------------------------------------------
(* Values and text *)

Num(d) == [parses |-> TRUE, dollars |-> d]
Unparsable == [parses |-> FALSE, dollars |-> 0]

\* float(x) for a value that parses
ParseFloat(w) == w.dollars * Scale

Ratio(n, d) == IF d < 0 THEN [num |-> 0 - n, den |-> 0 - d] ELSE [num |-> n, den |-> d]
RatioGE(r, k) == r.num >= k * r.den
RatioIs(r, a, b) == r.num * b = a * r.den

Min(a, b) == IF a <= b THEN a ELSE b
Abs(a) == IF a < 0 THEN 0 - a ELSE a

BoundedSeq(S, n) == UNION {[1..k -> S] : k \in 0..n}

LowerChar(c) ==
    CASE c = "A" -> "a" [] c = "B" -> "b" [] c = "C" -> "c" [] c = "D" -> "d"
      [] c = "E" -> "e" [] c = "F" -> "f" [] c = "G" -> "g" [] c = "H" -> "h"
      [] c = "I" -> "i" [] c = "J" -> "j" [] c = "K" -> "k" [] c = "L" -> "l"
      [] c = "M" -> "m" [] c = "N" -> "n" [] c = "O" -> "o" [] c = "P" -> "p"
      [] c = "Q" -> "q" [] c = "R" -> "r" [] c = "S" -> "s" [] c = "T" -> "t"
      [] c = "U" -> "u" [] c = "V" -> "v" [] c = "W" -> "w" [] c = "X" -> "x"
      [] c = "Y" -> "y" [] c = "Z" -> "z" [] OTHER -> c

\* str.lower()
Lower(s) == [i \in 1..Len(s) |-> LowerChar(s[i])]

\* the Python test "w in s" on strings
Contains(s, w) ==
    \E i \in 0..(Len(s) - Len(w)) : \A j \in 1..Len(w) : s[i + j] = w[j]

----------------------------------------------------------------------------
(* statistics.median, mean, stdev *)

RECURSIVE Insert(_, _)
Insert(x, s) ==
    IF s = <<>> THEN <<x>>
    ELSE IF x < Head(s) THEN <<x>> \o s
    ELSE <<Head(s)>> \o Insert(x, Tail(s))

RECURSIVE Sorted(_)
Sorted(s) == IF s = <<>> THEN <<>> ELSE Insert(Head(s), Sorted(Tail(s)))

RECURSIVE Sum(_)
Sum(s) == IF s = <<>> THEN 0 ELSE Head(s) + Sum(Tail(s))

Median(prices) ==
    LET srt == Sorted(prices)
        n   == Len(srt)
    IN  IF n % 2 = 1 THEN srt[(n + 1) \div 2]
        ELSE (srt[n \div 2] + srt[n \div 2 + 1]) \div 2

Mean(prices) == Sum(prices) \div Len(prices)

RECURSIVE ISqrtBetween(_, _, _)
ISqrtBetween(v, lo, hi) ==
    IF lo >= hi THEN lo
    ELSE LET mid == (lo + hi + 1) \div 2
         IN  IF mid * mid <= v THEN ISqrtBetween(v, mid, hi)
             ELSE ISqrtBetween(v, lo, mid - 1)

ISqrt(v) == ISqrtBetween(v, 0, 46340)

\* Sample standard deviation, to the cent (rounded down).  The sum of squares
\* is taken over the dollar amounts: sold prices in the model are whole dollars.
Stdev(prices) ==
    LET n   == Len(prices)
        d   == [i \in 1..n |-> prices[i] \div Scale]
        sq  == [i \in 1..n |-> d[i] * d[i]]
        nss == n * Sum(sq) - Sum(d) * Sum(d)
    IN  ISqrt((nss * 10000) \div (n * (n - 1))) * (Scale \div 100)

----------------------------------------------------------------------------
(* PriceAnalysis *)

NoAnalysis == [none |-> TRUE]

PriceAnalysis(median_price, total_cost, ebay_fees, real_profit, roi, is_good_deal, confidence, mean_price, std_dev, sample_size) ==
    [median_price |-> median_price, mean_price |-> mean_price,
     std_dev |-> std_dev, sample_size |-> sample_size,
     is_good_deal |-> is_good_deal, confidence |-> confidence,
     total_cost |-> total_cost, ebay_fees |-> ebay_fees,
     real_profit |-> real_profit, roi |-> roi]

----------------------------------------------------------------------------
(* PriceAnalyzer.analyze: comparable-sales valuation *)

\* the prices list built from the sold items: positive, parseable values
RECURSIVE UsablePrices(_)
UsablePrices(sold) ==
    IF sold = <<>> THEN <<>>
    ELSE LET w == Head(sold)
         IN  IF w.parses /\ ParseFloat(w) > 0
             THEN <<ParseFloat(w)>> \o UsablePrices(Tail(sold))
             ELSE UsablePrices(Tail(sold))

\* total_cost = current_price + self.config.AVERAGE_SHIPPING_COST
TotalCost(current_price, cfg) == current_price + cfg.AVERAGE_SHIPPING_COST

\* ebay_fees = potential_sale_price * (EBAY_FEE_PERCENTAGE / 100)
EbayFees(med_price, cfg) == (med_price * cfg.EBAY_FEE_PERMILLE) \div 1000

RealProfitNoFees(potential_sale_price, total_cost, ebay_fees) ==
    potential_sale_price - total_cost

\* real_profit = potential_sale_price - total_cost - ebay_fees
RealProfit(potential_sale_price, total_cost, ebay_fees) ==
    potential_sale_price - total_cost - ebay_fees

\* roi = (real_profit / total_cost) * 100
Roi(real_profit, total_cost) == Ratio(real_profit * 100, total_cost)

\* is_good_deal = real_profit > 0 and roi >= DEAL_PERCENTAGE_THRESHOLD
IsGoodDeal(real_profit, roi, cfg) ==
    real_profit > 0 /\ RatioGE(roi, cfg.DEAL_PERCENTAGE_THRESHOLD)

PriceConfidenceUnclamped(std_dev, med_price) == Ratio(med_price - std_dev, med_price)

\* price_confidence = 1 - min(std_dev / med_price, 1.0)
PriceConfidence(std_dev, med_price) ==
    Ratio(med_price - Min(std_dev, med_price), med_price)

\* confidence = min(len(prices) / 30, 1.0), times price_confidence when
\* std_dev > 0 and med_price > 0
Confidence(n, std_dev, med_price) ==
    LET sample == Ratio(Min(n, FULL_CONFIDENCE_SAMPLES), FULL_CONFIDENCE_SAMPLES)
    IN  IF std_dev > 0 /\ med_price > 0
        THEN LET price_confidence == PriceConfidence(std_dev, med_price)
             IN  Ratio(sample.num * price_confidence.num, sample.den * price_confidence.den)
        ELSE sample

Analyze(it, sold, cfg) ==
    IF ~it.title.present \/ it.title.text = <<>> THEN NoAnalysis
    ELSE IF sold = <<>> THEN NoAnalysis
    ELSE LET prices == UsablePrices(sold) IN
    IF Len(prices) < 2 THEN NoAnalysis
    ELSE LET med_price == Median(prices)
             avg_price == Mean(prices)
             std_dev   == Stdev(prices)
    IN
    IF med_price <= 0 \/ avg_price <= 0 THEN NoAnalysis
    ELSE IF ~it.price.parses THEN NoAnalysis
    ELSE LET current_price == ParseFloat(it.price) IN
    IF current_price <= 0 THEN NoAnalysis
    ELSE LET total_cost  == TotalCost(current_price, cfg)
             ebay_fees   == EbayFees(med_price, cfg)
             real_profit == RealProfit(med_price, total_cost, ebay_fees)
    IN
    IF total_cost = 0 THEN NoAnalysis       \* ZeroDivisionError, caught by the outer except
    ELSE LET roi == Roi(real_profit, total_cost)
         IN  PriceAnalysis(med_price, total_cost, ebay_fees, real_profit, roi,
                           IsGoodDeal(real_profit, roi, cfg),
                           Confidence(Len(prices), std_dev, med_price),
                           avg_price, std_dev, Len(prices))

----------------------------------------------------------------------------
(* PriceAnalyzer.analyze_item_async: markup-over-price valuation *)

HasShipping(it) == it.shipping.present

\* shipping_cost of analyze_item_async: 0.0 without shippingOptions, the stated
\* cost when FIXED, else 12.99
AsyncShippingCost(it) ==
    IF ~HasShipping(it) THEN 0
    ELSE IF it.shipping.type = "FIXED" THEN ParseFloat(it.shipping.cost)
    ELSE ESTIMATED_SHIPPING

\* float(shipping_info.get('shippingCost', {}).get('value', 0)) raises
ShippingCostRaises(it) ==
    HasShipping(it) /\ it.shipping.type = "FIXED" /\ ~it.shipping.cost.parses

\* 'new' in item.get('condition', '').lower()
IsNewCondition(it) == Contains(Lower(it.condition), <<"n", "e", "w">>)

\* ebay_fees = (price * 0.129) + 0.30
AsyncEbayFees(price) == (price * 129) \div 1000 + ASYNC_FIXED_FEE

\* market_value = price * markup, markup 1.5 for new items, 1.3 otherwise
MarketValue(it, price) == IF IsNewCondition(it) THEN (price * 15) \div 10 ELSE (price * 13) \div 10

\* roi = (real_profit / total_cost) * 100 if total_cost > 0 else 0
AsyncRoi(real_profit, total_cost) ==
    IF total_cost > 0 THEN Ratio(real_profit * 100, total_cost) ELSE Ratio(0, 1)

\* is_good_deal = roi >= 20
AsyncIsGoodDeal(roi) == RatioGE(roi, ASYNC_DEAL_THRESHOLD)

\* confidence = min(abs(market_value - price) / price, 1.0) * (1.0 if new else 0.8)
AsyncConfidence(it, market_value, price) ==
    Ratio(Min(Abs(market_value - price), price) * (IF IsNewCondition(it) THEN 10 ELSE 8), price * 10)

AnalyzeItemAsync(it) ==
    IF ~it.price.parses THEN NoAnalysis
    ELSE LET price == ParseFloat(it.price) IN
    IF price <= 0 THEN NoAnalysis
    ELSE IF ShippingCostRaises(it) THEN NoAnalysis
    ELSE LET total_cost   == price + AsyncShippingCost(it)
             ebay_fees    == AsyncEbayFees(price)
             market_value == MarketValue(it, price)
             real_profit  == RealProfit(market_value, total_cost, ebay_fees)
             roi          == AsyncRoi(real_profit, total_cost)
    IN
    IF ~it.title.present THEN NoAnalysis    \* item.get('title')[:50] raises TypeError
    ELSE PriceAnalysis(market_value, total_cost, ebay_fees, real_profit, roi,
                       AsyncIsGoodDeal(roi),
                       AsyncConfidence(it, market_value, price),
                       market_value, (market_value * 15) \div 100, 1)

----------------------------------------------------------------------------
(* Presentation: example.print_deal and the deal_data of web_app.search *)

NothingShown == [nothing |-> TRUE]
ShowError == [error |-> TRUE]        \* the except branch: nothing of the deal is kept

BestOfferEnabled(it) == "BEST_OFFER" \in it.buyingOptions

\* negotiated_price = current_price * 0.8 if best_offer_enabled else current_price
NegotiatedPrice(it, current_price) ==
    IF BestOfferEnabled(it) THEN (current_price * 8) \div 10 ELSE current_price

\* shipping_cost of print_deal: FIXED stated, CALCULATED 12.99, any other type 12.99
PrintShippingCost(it) ==
    IF ~HasShipping(it) THEN 0
    ELSE IF it.shipping.type = "FIXED" THEN ParseFloat(it.shipping.cost)
    ELSE ESTIMATED_SHIPPING

\* shipping_cost of web_app.search: FIXED stated, CALCULATED 12.99, any other type 0.0
WebShippingCost(it) ==
    IF ~HasShipping(it) THEN 0
    ELSE IF it.shipping.type = "FIXED" THEN ParseFloat(it.shipping.cost)
    ELSE IF it.shipping.type = "CALCULATED" THEN ESTIMATED_SHIPPING
    ELSE 0

\* What print_deal prints for a deal; ShowError when it ends in its except branch.
PrintDeal(it, an) ==
    IF ~it.price.parses \/ ShippingCostRaises(it) \/ ~it.title.present THEN ShowError
    ELSE LET current_price    == ParseFloat(it.price)
             shipping_cost    == PrintShippingCost(it)
             total_cost       == current_price + shipping_cost
             negotiated_price == NegotiatedPrice(it, current_price)
             negotiated_total == negotiated_price + shipping_cost
             real_profit      == an.median_price - total_cost - an.ebay_fees
             negotiated_profit == an.median_price - negotiated_total - an.ebay_fees
    IN
    IF total_cost = 0 THEN ShowError                                  \* ZeroDivisionError
    ELSE IF BestOfferEnabled(it) /\ negotiated_total = 0 THEN ShowError \* ZeroDivisionError
    ELSE IF BestOfferEnabled(it)
    THEN [listed_price |-> current_price, shipping_cost |-> shipping_cost,
          total_cost |-> total_cost, market_value |-> an.median_price,
          ebay_fees |-> an.ebay_fees, real_profit |-> real_profit,
          roi |-> Roi(real_profit, total_cost), confidence |-> an.confidence,
          negotiated_price |-> negotiated_price, negotiated_total |-> negotiated_total,
          negotiated_profit |-> negotiated_profit,
          negotiated_roi |-> Roi(negotiated_profit, negotiated_total)]
    ELSE [listed_price |-> current_price, shipping_cost |-> shipping_cost,
          total_cost |-> total_cost, market_value |-> an.median_price,
          ebay_fees |-> an.ebay_fees, real_profit |-> real_profit,
          roi |-> Roi(real_profit, total_cost), confidence |-> an.confidence]

\* if analysis.roi >= 0
WebIncludes(an) == RatioGE(an.roi, 0)

\* The deal_data dict the search route appends for one analysed listing
\* (image_url, size, web_url and brand are passed through and left out here);
\* NothingShown when roi < 0, ShowError when the except branch skips the listing.
WebDeal(it, an) ==
    IF ShippingCostRaises(it) \/ ~it.price.parses THEN ShowError
    ELSE LET shipping_cost    == WebShippingCost(it)
             current_price    == ParseFloat(it.price)
             negotiated_price == NegotiatedPrice(it, current_price)
             total_cost       == current_price + shipping_cost + an.ebay_fees
    IN  IF WebIncludes(an)
        THEN [title |-> it.title.text, price |-> current_price,
              market_value |-> an.median_price, roi |-> an.roi,
              real_profit |-> an.real_profit, condition |-> it.condition,
              total_cost |-> total_cost]
        ELSE NothingShown

----------------------------------------------------------------------------
(* Users: models.user and the demo users of UserService *)

Dollars(d) == d * Scale

RoseExcluded ==
    << <<"m", "e", "n">>, <<"m", "e", "n", "s">>, <<"m", "a", "l", "e">>, <<"b", "o", "y", "s">>, <<"f", "a", "k", "e">>,
       <<"r", "e", "p", "l", "i", "c", "a">>, <<"i", "n", "s", "p", "i", "r", "e", "d">>, <<"w", "h", "o", "l", "e", "s", "a", "l", "e">>, <<"l", "o", "t">>, <<"b", "u", "l", "k">> >>

ThaiExcluded ==
    << <<"w", "o", "m", "e", "n">>, <<"w", "o", "m", "e", "n", "s">>, <<"f", "e", "m", "a", "l", "e">>, <<"g", "i", "r", "l", "s">>, <<"f", "a", "k", "e">>,
       <<"r", "e", "p", "l", "i", "c", "a">>, <<"i", "n", "s", "p", "i", "r", "e", "d">>, <<"w", "h", "o", "l", "e", "s", "a", "l", "e">>, <<"l", "o", "t">>, <<"b", "u", "l", "k">> >>

\* float('inf')
Infinity == 2147483647

\* excluded_keywords=None: the argument was not supplied
NoKeywords == [supplied |-> FALSE, words |-> <<>>]
Keywords(words) == [supplied |-> TRUE, words |-> words]

DefaultExcluded ==
    << <<"w", "o", "m", "e", "n">>, <<"k", "i", "d", "s">>, <<"f", "a", "k", "e">>, <<"r", "e", "p", "l", "i", "c", "a">> >>

\* The UserPreferences that models.user binds last, and so the one the package
\* exports and create_rose, create_thai and UserService instantiate: the fields
\* are stored as supplied, only a missing keyword list gets a default.
UserPreferences(max_price, min_roi, excluded_keywords) ==
    [max_price |-> max_price, min_roi |-> min_roi,
     excluded_keywords |-> IF excluded_keywords.supplied THEN excluded_keywords.words
                           ELSE DefaultExcluded]

ShadowedDefaultExcluded ==
    << <<"f", "a", "k", "e">>, <<"r", "e", "p", "l", "i", "c", "a">>, <<"i", "n", "s", "p", "i", "r", "e", "d">>,
       <<"w", "h", "o", "l", "e", "s", "a", "l", "e">>, <<"l", "o", "t">>, <<"b", "u", "l", "k">> >>

\* The UserPreferences that models.user binds first and the later definition
\* replaces: __post_init__ lower-cases the keywords, raises a negative min_roi
\* to 0 and turns a non-positive max_price into float('inf').
ShadowedUserPreferences(max_price, min_roi, excluded_keywords) ==
    [max_price |-> IF max_price <= 0 THEN Infinity ELSE max_price,
     min_roi |-> IF min_roi < 0 THEN 0 ELSE min_roi,
     excluded_keywords |->
        LET words == IF excluded_keywords.supplied THEN excluded_keywords.words
                     ELSE ShadowedDefaultExcluded
        IN  [i \in 1..Len(words) |-> Lower(words[i])]]

\* User(id=..., gender=..., preferences=UserPreferences(...))
NewUser(id, gender, args) ==
    LET preferences == UserPreferences(args.max_price, args.min_roi, args.excluded_keywords)
    IN  [id |-> id, gender |-> gender, min_roi |-> preferences.min_roi,
         max_price |-> preferences.max_price,
         excluded_keywords |-> preferences.excluded_keywords]

Args(max_price, min_roi, excluded_keywords) ==
    [max_price |-> max_price, min_roi |-> min_roi, excluded_keywords |-> excluded_keywords]

\* User.create_rose()
Rose == NewUser("rose", "women", Args(Dollars(300), 30, Keywords(RoseExcluded)))

\* User.create_thai()
Thai == NewUser("thai", "men", Args(Dollars(300), 30, Keywords(ThaiExcluded)))

\* keywords supplied in capitals and in mixed case
CapitalExcluded == << <<"F", "a", "k", "e">>, <<"R", "E", "P", "L", "I", "C", "A">> >>

\* constructor arguments of the users searched for: the two factory users, a
\* user whose keywords are not lower-case, users without a price ceiling
\* (max_price 0 and negative), and a user relying on the default keywords
UserArgs ==
    { [id |-> "rose", gender |-> "women", args |-> Args(Dollars(300), 30, Keywords(RoseExcluded))],
      [id |-> "thai", gender |-> "men", args |-> Args(Dollars(300), 30, Keywords(ThaiExcluded))],
      [id |-> "capitals", gender |-> "women", args |-> Args(Dollars(300), 30, Keywords(CapitalExcluded))],
      [id |-> "no_ceiling", gender |-> "women", args |-> Args(0, 30, Keywords(RoseExcluded))],
      [id |-> "negative_ceiling", gender |-> "men", args |-> Args(Dollars(-1), 30, NoKeywords)] }

Users == {NewUser(a.id, a.gender, a.args) : a \in UserArgs}

----------------------------------------------------------------------------
(* Size filters: UserSizes, ProductFinder._get_size_filters and the builder *)
(* inlined in find_deals_for_user.  A size is text, as titles are.          *)

Digits == {"0", "1", "2", "3", "4", "5", "6", "7", "8", "9"}

\* str.isdigit()
IsDigit(s) == s # <<>> /\ \A i \in 1..Len(s) : s[i] \in Digits

UpperChar(c) ==
    CASE c = "a" -> "A" [] c = "b" -> "B" [] c = "c" -> "C" [] c = "d" -> "D"
      [] c = "e" -> "E" [] c = "f" -> "F" [] c = "g" -> "G" [] c = "h" -> "H"
      [] c = "i" -> "I" [] c = "j" -> "J" [] c = "k" -> "K" [] c = "l" -> "L"
      [] c = "m" -> "M" [] c = "n" -> "N" [] c = "o" -> "O" [] c = "p" -> "P"
      [] c = "q" -> "Q" [] c = "r" -> "R" [] c = "s" -> "S" [] c = "t" -> "T"
      [] c = "u" -> "U" [] c = "v" -> "V" [] c = "w" -> "W" [] c = "x" -> "X"
      [] c = "y" -> "Y" [] c = "z" -> "Z" [] OTHER -> c

\* str.upper()
Upper(s) == [i \in 1..Len(s) |-> UpperChar(s[i])]

DigitValue(c) ==
    CASE c = "0" -> 0 [] c = "1" -> 1 [] c = "2" -> 2 [] c = "3" -> 3 [] c = "4" -> 4
      [] c = "5" -> 5 [] c = "6" -> 6 [] c = "7" -> 7 [] c = "8" -> 8 [] c = "9" -> 9

DigitChar(d) == CHOOSE c \in Digits : DigitValue(c) = d

\* int(size) of a digit string
RECURSIVE ToInt(_)
ToInt(s) == IF s = <<>> THEN 0 ELSE 10 * ToInt(SubSeq(s, 1, Len(s) - 1)) + DigitValue(s[Len(s)])

\* str(n) of a natural number
RECURSIVE ToStr(_)
ToStr(n) == IF n < 10 THEN <<DigitChar(n)>> ELSE ToStr(n \div 10) \o <<DigitChar(n % 10)>>

\* UserSizes(...).__post_init__: letter sizes are upper-cased
UserSizes(tops, bottoms_waist, bottoms_letter, outerwear) ==
    [tops |-> [i \in 1..Len(tops) |-> Upper(tops[i])],
     bottoms_waist |-> bottoms_waist,
     bottoms_letter |-> [i \in 1..Len(bottoms_letter) |-> Upper(bottoms_letter[i])],
     outerwear |-> [i \in 1..Len(outerwear) |-> Upper(outerwear[i])]]

NoSizes == UserSizes(<<>>, <<>>, <<>>, <<>>)

\* what _get_size_filters adds for one entry of tops + bottoms_letter + outerwear
LetterVariations(size, gender) ==
    IF IsDigit(size) THEN {}
    ELSE LET size_upper == Upper(size)
         IN  IF size_upper = <<"S">>
               THEN {<<"S", "m", "a", "l", "l">>, <<"S">>} \cup (IF gender = "women" THEN {<<"4">>} ELSE {})
             ELSE IF size_upper = <<"M">>
               THEN {<<"M", "e", "d", "i", "u", "m">>, <<"M">>} \cup (IF gender = "women" THEN {<<"8">>} ELSE {})
             ELSE IF size_upper = <<"L">>
               THEN {<<"L", "a", "r", "g", "e">>, <<"L">>} \cup (IF gender = "women" THEN {<<"1", "2">>} ELSE {})
             ELSE {}

\* what _get_size_filters adds for one entry of bottoms_waist
WaistVariations(size, gender) ==
    IF IsDigit(size)
      THEN {size} \cup (IF gender = "men"
                          THEN {size \o <<"R">>, size \o <<"L">>, <<"W">> \o size}
                          ELSE {})
      ELSE {}

\* ProductFinder._get_size_filters(sizes, gender), gender being 'men' or 'women'
\* (User.__post_init__ makes it a Gender, so the ValueError branch is not taken)
GetSizeFilters(szs, gender) ==
    LET letters == szs.tops \o szs.bottoms_letter \o szs.outerwear
    IN  UNION {LetterVariations(letters[i], gender) : i \in 1..Len(letters)}
        \cup UNION {WaistVariations(szs.bottoms_waist[i], gender) : i \in 1..Len(szs.bottoms_waist)}

\* what the loop of find_deals_for_user adds for one size
InlineVariations(size) ==
    {size} \cup
    (IF IsDigit(size) THEN {ToStr(ToInt(size) + 4)}
     ELSE IF Upper(size) = <<"S">> THEN {<<"S", "m", "a", "l", "l">>, <<"4">>, <<"6">>}
     ELSE IF Upper(size) = <<"M">> THEN {<<"M", "e", "d", "i", "u", "m">>, <<"8">>, <<"1", "0">>}
     ELSE {})

\* the size_filters find_deals_for_user builds
InlineSizeFilters(szs) ==
    LET all == szs.tops \o szs.bottoms_waist \o szs.bottoms_letter \o szs.outerwear
    IN  UNION {InlineVariations(all[i]) : i \in 1..Len(all)}

----------------------------------------------------------------------------
(* ProductFinder.find_deals_for_user and find_deals_for_user_async *)

MensTerms == { <<"m", "e", "n", "s">>, <<"m", "e", "n">>, <<"m", "a", "l", "e">>, <<"m", "a", "n">>, <<"b", "o", "y", "s">>, <<"b", "o", "y">> }

ClothingKeywords ==
    { <<"d", "r", "e", "s", "s">>, <<"t", "o", "p">>, <<"s", "k", "i", "r", "t">>, <<"p", "a", "n", "t", "s">>, <<"j", "a", "c", "k", "e", "t">>,
      <<"c", "o", "a", "t">>, <<"s", "w", "e", "a", "t", "e", "r">>, <<"b", "l", "o", "u", "s", "e">>, <<"j", "u", "m", "p", "s", "u", "i", "t">> }

\* title = item.get('title', '').lower()
FilterTitle(it) == IF it.title.present THEN Lower(it.title.text) ELSE <<>>

ExcludedWordsAsSupplied(u) == {u.excluded_keywords[i] : i \in 1..Len(u.excluded_keywords)}

\* excluded_words = {word.lower() for word in user.preferences.excluded_keywords}
ExcludedWords(u) == {Lower(u.excluded_keywords[i]) : i \in 1..Len(u.excluded_keywords)}

PriceRejectedNoCeiling(price, u) == price <= 0

\* if price <= 0 or price > user.preferences.max_price
PriceRejected(price, u) == price <= 0 \/ price > u.max_price

\* The branch one listing takes in the filter loop of the given path:
\* "error" (the except branch), "price", "excluded", "terms" (men's terms on the
\* synchronous path, no clothing keyword on the asynchronous one) or "kept".
Verdict(it, u, path) ==
    IF ~it.price.parses THEN "error"
    ELSE IF PriceRejected(ParseFloat(it.price), u) THEN "price"
    ELSE IF \E word \in ExcludedWords(u) : Contains(FilterTitle(it), word) THEN "excluded"
    ELSE IF path = "sync" /\ (\E term \in MensTerms : Contains(FilterTitle(it), term)) THEN "terms"
    ELSE IF path = "async" /\ ~(\E keyword \in ClothingKeywords : Contains(Lower(FilterTitle(it)), keyword)) THEN "terms"
    ELSE "kept"

RECURSIVE CountVerdict(_, _, _, _)
CountVerdict(its, u, path, vs) ==
    IF its = <<>> THEN 0
    ELSE (IF Verdict(Head(its), u, path) \in vs THEN 1 ELSE 0) + CountVerdict(Tail(its), u, path, vs)

RECURSIVE InsertByPrice(_, _)
InsertByPrice(x, s) ==
    IF s = <<>> THEN <<x>>
    ELSE IF ParseFloat(x.price) < ParseFloat(Head(s).price) THEN <<x>> \o s
    ELSE <<Head(s)>> \o InsertByPrice(x, Tail(s))

\* filtered_items.sort(key=price): stable, ascending
RECURSIVE SortByPrice(_)
SortByPrice(s) ==
    IF s = <<>> THEN <<>>
    ELSE InsertByPrice(s[Len(s)], SortByPrice(SubSeq(s, 1, Len(s) - 1)))

Kept(its, u, path) == SelectSeq(its, LAMBDA it : Verdict(it, u, path) = "kept")

----------------------------------------------------------------------------
(* The brand search: EbayAPI.search_items_async for each brand, gathered by  *)
(* search_multiple_brands_async, inside find_deals_for_user_async            *)

\* how a call ended: it returned a list, returned None, or raised
Returned(list) == [raised |-> FALSE, is_list |-> TRUE, value |-> list]
ReturnedNone == [raised |-> FALSE, is_list |-> FALSE, value |-> <<>>]
Raised == [raised |-> TRUE, is_list |-> FALSE, value |-> <<>>]
NotCalled == [called |-> FALSE]

PropagateException(body) == body

\* try: ... except Exception as e: print(...); return []
ReturnEmptyOnException(body) == IF body.raised THEN Returned(<<>>) ELSE body

\* EbayAPI._get_headers, which search_items_async calls for the headers of
\* its request, has no definition in the package.  It is taken to be what the
\* marketplace client is specified as: it supplies the headers of an
\* authenticated request, and raises when no token is to be had.
GetHeadersRaises(outcome) == outcome.kind = "no_token"

\* search_items_async for one brand.  outcome is what the query meets: no
\* category ids for the brand and gender, no token, a 429 response, an
\* exception of the request or of response.json(), a payload without
\* 'itemSummaries', a payload whose 'itemSummaries' is null, or a payload with
\* item summaries.
SearchItemsAsync(outcome) ==
    IF outcome.kind = "no_categories" THEN Returned(<<>>)
    ELSE ReturnEmptyOnException(
            CASE GetHeadersRaises(outcome) -> Raised
              [] outcome.kind = "throttled" -> Returned(<<>>)
              [] outcome.kind = "transport_error" -> Raised
              [] outcome.kind = "no_summaries" -> Returned(<<>>)
              [] outcome.kind = "null_summaries" -> ReturnedNone
              [] outcome.kind = "ok" -> Returned(outcome.items))

\* [item for brand_items in results for item in brand_items]
RECURSIVE Flatten(_)
Flatten(results) ==
    IF results = <<>> THEN <<>> ELSE Head(results).value \o Flatten(Tail(results))

\* search_multiple_brands_async: gather raises what a task raised; flattening
\* raises TypeError on a result that is not a list; both end in return [].
GatherResults(results) ==
    ReturnEmptyOnException(
        IF \E i \in 1..Len(results) : results[i].raised THEN Raised
        ELSE IF \E i \in 1..Len(results) : ~results[i].is_list THEN Raised
        ELSE Returned(Flatten(results)))

SearchMultipleBrandsAsync(outs) ==
    GatherResults([i \in 1..Len(outs) |-> SearchItemsAsync(outs[i])])

\* find_deals_for_user_async as a whole: the brand search, the filter loop and
\* the sort, inside try / except Exception: return []
FindDealsFrom(u, found) ==
    ReturnEmptyOnException(
        IF found.raised THEN Raised
        ELSE IF found.value = <<>> THEN Returned(<<>>)
        ELSE Returned(SortByPrice(Kept(found.value, u, "async"))))

FindDealsAsync(u, outs) == FindDealsFrom(u, SearchMultipleBrandsAsync(outs))

\* find_deals_for_user on what search_items_bulk returned
FindDealsSync(u, found) ==
    IF found.value = <<>> THEN Returned(<<>>)
    ELSE Returned(SortByPrice(Kept(found.value, u, "sync")))

----------------------------------------------------------------------------
(* PriceAnalyzer.analyze_batch and analyze_batch_async *)

CHUNK_SIZE == 50

\* One chunk of analyze_batch: the (item, analysis) pairs whose analysis is not
\* None, in the order of the chunk.  sold maps a title to what search_sold_items
\* (memoized per title) returns for it.
RECURSIVE AnalyzeChunkStopAtFailure(_, _, _)
AnalyzeChunkStopAtFailure(chunk, sold, cfg) ==
    IF chunk = <<>> THEN <<>>
    ELSE LET it == Head(chunk)
             an == Analyze(it, IF it.title \in DOMAIN sold THEN sold[it.title] ELSE <<>>, cfg)
         IN  IF an = NoAnalysis THEN <<>>
             ELSE << <<it, an>> >> \o AnalyzeChunkStopAtFailure(Tail(chunk), sold, cfg)

RECURSIVE AnalyzeChunk(_, _, _)
AnalyzeChunk(chunk, sold, cfg) ==
    IF chunk = <<>> THEN <<>>
    ELSE LET it == Head(chunk)
             an == Analyze(it, IF it.title \in DOMAIN sold THEN sold[it.title] ELSE <<>>, cfg)
         IN  (IF an = NoAnalysis THEN <<>> ELSE << <<it, an>> >>)
             \o AnalyzeChunk(Tail(chunk), sold, cfg)

RECURSIVE AnalyzeBatch(_, _, _)
AnalyzeBatch(its, sold, cfg) ==
    IF its = <<>> THEN <<>>
    ELSE AnalyzeChunk(SubSeq(its, 1, Min(CHUNK_SIZE, Len(its))), sold, cfg)
         \o AnalyzeBatch(SubSeq(its, Min(CHUNK_SIZE, Len(its)) + 1, Len(its)), sold, cfg)

RECURSIVE AnalyzeBatchAsync(_)
AnalyzeBatchAsync(its) ==
    IF its = <<>> THEN <<>>
    ELSE LET an == AnalyzeItemAsync(Head(its))
         IN  (IF an = NoAnalysis THEN <<>> ELSE << <<Head(its), an>> >>)
             \o AnalyzeBatchAsync(Tail(its))

\* the titles analyze looks up sold items for
SoldTitles(its) == {its[i].title : i \in {j \in 1..Len(its) : its[j].title.present /\ its[j].title.text # <<>>}}

----------------------------------------------------------------------------
(* Reporting: the loop of example.main and the deals of web_app.search *)

\* analysis and analysis.is_good_deal and analysis.roi >= user.preferences.min_roi
MainReports(an, u) == an # NoAnalysis /\ an.is_good_deal /\ RatioGE(an.roi, u.min_roi)

RECURSIVE MainDeals(_, _)
MainDeals(pairs, u) ==
    IF pairs = <<>> THEN <<>>
    ELSE LET it == Head(pairs)[1]
             an == Head(pairs)[2]
         IN  (IF MainReports(an, u)
              THEN << [item |-> it, analysis |-> an, out |-> PrintDeal(it, an)] >>
              ELSE <<>>)
             \o MainDeals(Tail(pairs), u)

\* n1/d1 < n2/d2 for d1, d2 > 0, by continued fractions (no product is formed)
RECURSIVE FracLT(_, _, _, _)
FracLT(n1, d1, n2, d2) ==
    IF n1 \div d1 # n2 \div d2 THEN n1 \div d1 < n2 \div d2
    ELSE IF n2 % d2 = 0 THEN FALSE
    ELSE IF n1 % d1 = 0 THEN TRUE
    ELSE FracLT(d2, n2 % d2, d1, n1 % d1)

RECURSIVE InsertByRoiDesc(_, _)
InsertByRoiDesc(x, s) ==
    IF s = <<>> THEN <<x>>
    ELSE IF FracLT(Head(s).out.roi.num, Head(s).out.roi.den, x.out.roi.num, x.out.roi.den)
         THEN <<x>> \o s
         ELSE <<Head(s)>> \o InsertByRoiDesc(x, Tail(s))

\* deals.sort(key=roi, reverse=True): stable, descending
RECURSIVE SortByRoiDesc(_)
SortByRoiDesc(s) ==
    IF s = <<>> THEN <<>>
    ELSE InsertByRoiDesc(s[Len(s)], SortByRoiDesc(SubSeq(s, 1, Len(s) - 1)))

RECURSIVE WebDeals(_)
WebDeals(pairs) ==
    IF pairs = <<>> THEN <<>>
    ELSE LET it  == Head(pairs)[1]
             an  == Head(pairs)[2]
             out == WebDeal(it, an)
         IN  (IF out # NothingShown /\ out # ShowError
              THEN << [item |-> it, analysis |-> an, out |-> out] >>
              ELSE <<>>)
             \o WebDeals(Tail(pairs))

----------------------------------------------------------------------------
(* The memoized queries: EbayFindingClient.search_items behind a TTLCache and *)
(* EbayAPI.search_sold_items behind functools.lru_cache                       *)

\* TTLCache(maxsize=100, ttl=3600)
CACHE_TTL == 3600

\* seconds between two instants of the clock
ClockStep == CACHE_TTL \div 2

\* category_ids=None / conditions=None
None == <<>>

SearchParams ==
    { [query |-> "dress", category_ids |-> c, min_price |-> None, max_price |-> None,
       conditions |-> d, limit |-> 50] :
        c \in { <<"15724", "53159">>, <<"53159", "15724">> },
        d \in { <<"NEW", "USED">>, <<"USED", "NEW">> } }

\* _get_cache_key: the '|'-joined str() of the six parameters, hashed.  The
\* str() of a list keeps the order of its elements; the digest is taken to be
\* as distinct as the joined string.
CacheKey(query, category_ids, min_price, max_price, conditions, limit) ==
    <<query, category_ids, min_price, max_price, conditions, limit>>

KeyOf(p) == CacheKey(p.query, p.category_ids, p.min_price, p.max_price, p.conditions, p.limit)

SoldKeywords == {"Silk dress"}

NoEntry == [present |-> FALSE]
Entry(response, at) == [present |-> TRUE, response |-> response, inserted |-> at]

\* a response fetched from the network at the given instant
Fetched(at) == [fetched_at |-> at, ok |-> TRUE]
\* {'itemSummaries': []} / []: what a failed request turns into
EmptyResult(at) == [fetched_at |-> at, ok |-> FALSE]

NoCall == [api |-> "none"]
Call(api, params, hit, response, at) ==
    [api |-> api, params |-> params, hit |-> hit, response |-> response, at |-> at]

\* TTLCache(maxsize=100, ttl=3600)
CACHE_MAXSIZE == 100

TtlEntry(key, response, at) == [key |-> key, response |-> response, inserted |-> at]

\* A TTLCache entry counts until timer() passes its expiry; cachetools 4.2
\* still counts it at the expiry instant itself, cachetools 5 does not
\* (setup.py asks for cachetools>=4.2.0).
Unexpired(entry, t, inclusive) ==
    IF inclusive THEN t <= entry.inserted + CACHE_TTL ELSE t < entry.inserted + CACHE_TTL

\* cache_key in self._cache
InTTLCache(cache, key, t, inclusive) ==
    \E i \in 1..Len(cache) : cache[i].key = key /\ Unexpired(cache[i], t, inclusive)

\* the value self._cache[cache_key] returns
TtlValue(cache, key) == cache[CHOOSE i \in 1..Len(cache) : cache[i].key = key].response

TtlTouchKeepsPlace(cache, key) == cache

\* what self._cache[cache_key] does to the cache: the entry read becomes the
\* most recently used one
TtlTouch(cache, key) ==
    SelectSeq(cache, LAMBDA e : e.key # key) \o SelectSeq(cache, LAMBDA e : e.key = key)

\* self._cache[cache_key] = results: the expired entries are removed, then,
\* for a new key, the least recently used ones while the cache is full; the
\* entry stored is the most recently used one
TtlStore(cache, key, response, t, inclusive) ==
    LET live == SelectSeq(cache, LAMBDA e : Unexpired(e, t, inclusive))
        others == SelectSeq(live, LAMBDA e : e.key # key)
        room == IF Len(others) = Len(live) /\ Len(others) >= CACHE_MAXSIZE
                  THEN SubSeq(others, Len(others) - CACHE_MAXSIZE + 2, Len(others))
                  ELSE others
    IN  Append(room, TtlEntry(key, response, t))

\* lru_cache(maxsize=1000): an entry counts for as long as it is not evicted
InLruCache(entry) == entry.present

----------------------------------------------------------------------------
(* Listing records and the inputs enumerated *)

Title(text) == [present |-> TRUE, text |-> text]
NoTitle == [present |-> FALSE, text |-> <<>>]

NoShipping == [present |-> FALSE, type |-> "N/A", cost |-> Num(0)]
Shipping(type, cost) == [present |-> TRUE, type |-> type, cost |-> cost]

Listing(title, price, shipping, condition, buyingOptions) ==
    [title |-> title, price |-> price, shipping |-> shipping,
     condition |-> condition, buyingOptions |-> buyingOptions]

ConditionNew == <<"N", "e", "w">>
ConditionUsed == <<"P", "r", "e", "-", "o", "w", "n", "e", "d">>
Conditions == {ConditionNew, ConditionUsed}

DressTitle == Title(<<"S", "i", "l", "k", " ", "d", "r", "e", "s", "s">>)
MensTopTitle == Title(<<"M", "e", "n", "s", " ", "t", "o", "p">>)
WomensTopTitle == Title(<<"W", "o", "m", "e", "n", "s", " ", "t", "o", "p">>)
FakeDressTitle == Title(<<"F", "A", "K", "E", " ", "d", "r", "e", "s", "s">>)
BagTitle == Title(<<"T", "o", "t", "e", " ", "b", "a", "g">>)

ShippingDomain ==
    { NoShipping, Shipping("FIXED", Num(0)), Shipping("FIXED", Num(10)),
      Shipping("FIXED", Num(-100)), Shipping("FIXED", Unparsable),
      Shipping("CALCULATED", Num(0)),
      Shipping("NOT_SPECIFIED", Num(0)) }

BuyingOptionsDomain == { {"FIXED_PRICE"}, {"FIXED_PRICE", "BEST_OFFER"} }

\* listings handed to a single analysis
AnalysisItems ==
    { Listing(t, p, s, c, b) :
        t \in {NoTitle, DressTitle}, p \in {Unparsable, Num(0), Num(100)},
        s \in ShippingDomain, c \in Conditions, b \in BuyingOptionsDomain }

\* price values of sold items
SoldValues == {Unparsable, Num(0), Num(1), Num(140), Num(150), Num(160), Num(200)}

\* listings a brand search returns
PoolItems ==
    { Listing(DressTitle, p, NoShipping, c, {"FIXED_PRICE"}) :
        p \in {Unparsable, Num(0), Num(100), Num(400)}, c \in Conditions }
    \cup
    { Listing(t, Num(100), NoShipping, ConditionNew, {"FIXED_PRICE"}) :
        t \in {MensTopTitle, WomensTopTitle, FakeDressTitle, BagTitle, NoTitle} }
    \cup
    { Listing(DressTitle, Num(100), Shipping("FIXED", Unparsable), ConditionNew, {"FIXED_PRICE"}) }

\* sold-items responses of a batch analysis
BatchSamples ==
    { <<>>, <<Num(40)>>, <<Num(140), Num(150), Num(160)>>, <<Num(200), Num(200)>> }

Configs ==
    { [DEAL_PERCENTAGE_THRESHOLD |-> t, AVERAGE_SHIPPING_COST |-> AVERAGE_SHIPPING_COST,
       EBAY_FEE_PERMILLE |-> EBAY_FEE_PERMILLE] : t \in {20, 30} }

----------------------------------------------------------------------------
(* The analysis of one listing: analyze or analyze_item_async, then its rendering *)

\* no brand search was started
FanoutIdle ==
    /\ outcomes = <<>> /\ fanout_result = NotCalled /\ find_result = NotCalled
    /\ fpc = "idle"

\* no deal search is on the network and no token is being validated
IdleCaller == [path |-> "none", pc |-> "idle"]
IdleToken == [pc |-> "idle"]
NetworkIdle ==
    /\ session = "none" /\ clock = 0 /\ tasks = <<>> /\ requests_sent = <<>>
    /\ caller = IdleCaller /\ lookups = <<>> /\ coroutines = <<>> /\ token = IdleToken

\* no query was issued: both caches are empty
CacheIdle ==
    /\ now = 0 /\ ttl_inclusive = FALSE
    /\ ttl_cache = <<>>
    /\ sold_memo = [k \in SoldKeywords |-> NoEntry]
    /\ ncalls = 0 /\ prev_call = NoCall /\ last_call = NoCall

SizesIdle == sizes = NoSizes /\ size_filters = {} /\ spc = "idle"

IdleItem == Listing(NoTitle, Num(0), NoShipping, ConditionUsed, {"FIXED_PRICE"})

PipelineIdle ==
    /\ items = <<>> /\ mode = "none" /\ filtered_items = <<>>
    /\ price_filtered = 0 /\ excluded_filtered = 0
    /\ analyzed_items = <<>> /\ deals = <<>> /\ pc = "idle"

InitAnalysis ==
    /\ config \in Configs
    /\ NetworkIdle
    /\ user = Rose
    /\ item \in AnalysisItems
    /\ sold_items \in BoundedSeq(SoldValues, MaxSample)
    /\ analysis = NoAnalysis
    /\ shown = NothingShown
    /\ apc = "start"
    /\ PipelineIdle
    /\ SizesIdle
    /\ CacheIdle
    /\ FanoutIdle

CallAnalyze ==
    /\ apc = "start"
    /\ analysis' = Analyze(item, sold_items, config)
    /\ apc' = "analyze"
    /\ UNCHANGED <<config, user, xvars, item, sold_items, shown, pvars>>

CallAnalyzeItemAsync ==
    /\ apc = "start"
    /\ analysis' = AnalyzeItemAsync(item)
    /\ apc' = "analyze_item_async"
    /\ UNCHANGED <<config, user, xvars, item, sold_items, shown, pvars>>

\* example.main: print_deal for an analysis that passes the report condition
CallPrintDeal ==
    /\ apc = "analyze"
    /\ MainReports(analysis, user)
    /\ shown' = PrintDeal(item, analysis)
    /\ apc' = "print_deal"
    /\ UNCHANGED <<config, user, xvars, item, sold_items, analysis, pvars>>

\* web_app.search: the deal_data of an analysed listing
RenderWebDeal ==
    /\ apc = "analyze_item_async"
    /\ analysis # NoAnalysis
    /\ shown' = WebDeal(item, analysis)
    /\ apc' = "search"
    /\ UNCHANGED <<config, user, xvars, item, sold_items, analysis, pvars>>

NextAnalysis == CallAnalyze \/ CallAnalyzeItemAsync \/ CallPrintDeal \/ RenderWebDeal

SpecAnalysis == InitAnalysis /\ [][NextAnalysis]_vars

----------------------------------------------------------------------------
(* The deal search: find deals, analyse the batch, report *)

Init ==
    /\ config \in Configs
    /\ NetworkIdle
    /\ user \in Users
    /\ item = IdleItem /\ sold_items = <<>> /\ analysis = NoAnalysis
    /\ shown = NothingShown /\ apc = "idle"
    /\ items \in BoundedSeq(PoolItems, MaxItems)
    /\ mode = "none"
    /\ filtered_items = <<>>
    /\ price_filtered = 0
    /\ excluded_filtered = 0
    /\ analyzed_items = <<>>
    /\ deals = <<>>
    /\ pc = "start"
    /\ SizesIdle
    /\ CacheIdle
    /\ FanoutIdle

FindDeals(path) ==
    /\ pc = "start"
    /\ mode' = path
    /\ filtered_items' = SortByPrice(Kept(items, user, path))
    /\ price_filtered' = CountVerdict(items, user, path, {"price"})
    /\ excluded_filtered' = CountVerdict(items, user, path, {"excluded", "terms"})
    /\ pc' = "found"
    /\ UNCHANGED <<config, user, xvars, avars, items, analyzed_items, deals>>

FindDealsForUser == FindDeals("sync")

FindDealsForUserAsync == FindDeals("async")

CallAnalyzeBatch ==
    /\ pc = "found" /\ mode = "sync"
    /\ \E sold \in [SoldTitles(filtered_items) -> BatchSamples] :
          /\ sold_items' = sold
          /\ analyzed_items' = AnalyzeBatch(filtered_items, sold, config)
    /\ pc' = "analyzed"
    /\ UNCHANGED <<config, user, xvars, item, analysis, shown, apc, items, mode, filtered_items, price_filtered, excluded_filtered, deals>>

CallAnalyzeBatchAsync ==
    /\ pc = "found" /\ mode = "async"
    /\ analyzed_items' = AnalyzeBatchAsync(filtered_items)
    /\ pc' = "analyzed"
    /\ UNCHANGED <<config, user, xvars, avars, items, mode, filtered_items, price_filtered, excluded_filtered, deals>>

\* the reporting loop of example.main
MainLoop ==
    /\ pc = "analyzed" /\ mode = "sync"
    /\ deals' = MainDeals(analyzed_items, user)
    /\ pc' = "done"
    /\ UNCHANGED <<config, user, xvars, avars, items, mode, filtered_items, price_filtered, excluded_filtered, analyzed_items>>

\* the deals list of web_app.search
SearchRoute ==
    /\ pc = "analyzed" /\ mode = "async"
    /\ deals' = SortByRoiDesc(WebDeals(analyzed_items))
    /\ pc' = "done"
    /\ UNCHANGED <<config, user, xvars, avars, items, mode, filtered_items, price_filtered, excluded_filtered, analyzed_items>>

Next ==
    \/ FindDealsForUser
    \/ FindDealsForUserAsync
    \/ CallAnalyzeBatch
    \/ CallAnalyzeBatchAsync
    \/ MainLoop
    \/ SearchRoute

Spec == Init /\ [][Next]_vars

----------------------------------------------------------------------------
(* Building the size filters of a user *)

TopSizes == { <<"S">>, <<"m">>, <<"L">>, <<"X", "L">>, <<"X", "S">>, <<"8">> }
WaistSizes == { <<"2", "8">>, <<"3", "2", "W">> }

\* the size lists a user is constructed with
SizeInputs ==
    { UserSizes(tops, bottoms_waist, bottoms_letter, outerwear) :
        tops \in BoundedSeq(TopSizes, MaxSizes),
        bottoms_waist \in BoundedSeq(WaistSizes, 1),
        bottoms_letter \in {<<>>, << <<"L">> >>},
        outerwear \in {<<>>, << <<"x", "s">> >>} }

InitSizes ==
    /\ config \in Configs
    /\ NetworkIdle
    /\ user \in Users
    /\ item = IdleItem /\ sold_items = <<>> /\ analysis = NoAnalysis
    /\ shown = NothingShown /\ apc = "idle"
    /\ PipelineIdle
    /\ sizes \in SizeInputs
    /\ size_filters = {}
    /\ spc = "start"
    /\ CacheIdle
    /\ FanoutIdle

\* the first lines of find_deals_for_user
BuildSizeFiltersInline ==
    /\ spc = "start"
    /\ size_filters' = InlineSizeFilters(sizes)
    /\ spc' = "sync"
    /\ UNCHANGED <<config, user, avars, pvars, nvars, sizes, cvars, fvars>>

\* size_filters = self._get_size_filters(user.sizes, user.gender.value)
CallGetSizeFilters ==
    /\ spc = "start"
    /\ size_filters' = GetSizeFilters(sizes, user.gender)
    /\ spc' = "async"
    /\ UNCHANGED <<config, user, avars, pvars, nvars, sizes, cvars, fvars>>

NextSizes ==
    \/ BuildSizeFiltersInline
    \/ CallGetSizeFilters

SpecSizes == InitSizes /\ [][NextSizes]_vars

----------------------------------------------------------------------------
(* Queries through the two caches over time *)

InitCache ==
    /\ config \in Configs
    /\ NetworkIdle
    /\ user = Rose
    /\ item = IdleItem /\ sold_items = <<>> /\ analysis = NoAnalysis
    /\ shown = NothingShown /\ apc = "idle"
    /\ PipelineIdle
    /\ SizesIdle
    /\ now = 0
    /\ ttl_inclusive \in BOOLEAN
    /\ ttl_cache = <<>>
    /\ sold_memo = [k \in SoldKeywords |-> NoEntry]
    /\ ncalls = 0 /\ prev_call = NoCall /\ last_call = NoCall
    /\ FanoutIdle

Tick ==
    /\ now < MaxTicks * ClockStep
    /\ now' = now + ClockStep
    /\ UNCHANGED <<config, user, avars, pvars, nvars, svars, fvars, ttl_inclusive, ttl_cache, sold_memo, ncalls, prev_call, last_call>>

\* EbayFindingClient.search_items: a hit returns the cached results; a miss
\* posts the request and caches what _parse_response makes of a 200 response,
\* the item summaries or the {'itemSummaries': []} it returns for an
\* errorMessage; any other status and any exception return
\* {'itemSummaries': []} and cache nothing.
SearchItemsOf(params) ==
    /\ ncalls < MaxCalls
    /\ \E p \in params, outcome \in {"ok", "api_error", "failed"} :
          LET cache_key == KeyOf(p)
          IN  IF InTTLCache(ttl_cache, cache_key, now, ttl_inclusive)
                THEN /\ last_call' = Call("search_items", p, TRUE, TtlValue(ttl_cache, cache_key), now)
                     /\ ttl_cache' = TtlTouch(ttl_cache, cache_key)
                ELSE IF outcome = "ok"
                THEN /\ last_call' = Call("search_items", p, FALSE, Fetched(now), now)
                     /\ ttl_cache' = TtlStore(ttl_cache, cache_key, Fetched(now), now, ttl_inclusive)
                ELSE IF outcome = "api_error"
                THEN /\ last_call' = Call("search_items", p, FALSE, EmptyResult(now), now)
                     /\ ttl_cache' = TtlStore(ttl_cache, cache_key, EmptyResult(now), now, ttl_inclusive)
                ELSE /\ last_call' = Call("search_items", p, FALSE, EmptyResult(now), now)
                     /\ ttl_cache' = ttl_cache
    /\ prev_call' = last_call
    /\ ncalls' = ncalls + 1
    /\ UNCHANGED <<config, user, avars, pvars, nvars, svars, fvars, now, ttl_inclusive, sold_memo>>

\* EbayAPI.search_sold_items: lru_cache returns what the first call with these
\* keywords returned, be it the item summaries or the [] of a failed request.
SearchSoldItems ==
    /\ ncalls < MaxCalls
    /\ \E keywords \in SoldKeywords, outcome \in {"ok", "failed"} :
          IF InLruCache(sold_memo[keywords])
            THEN /\ last_call' = Call("search_sold_items", keywords, TRUE, sold_memo[keywords].response, now)
                 /\ sold_memo' = sold_memo
            ELSE LET response == IF outcome = "ok" THEN Fetched(now) ELSE EmptyResult(now)
                 IN  /\ last_call' = Call("search_sold_items", keywords, FALSE, response, now)
                     /\ sold_memo' = [sold_memo EXCEPT ![keywords] = Entry(response, now)]
    /\ prev_call' = last_call
    /\ ncalls' = ncalls + 1
    /\ UNCHANGED <<config, user, avars, pvars, nvars, svars, fvars, now, ttl_inclusive, ttl_cache>>

SearchItems == SearchItemsOf(SearchParams)

NextCache ==
    \/ Tick
    \/ SearchItems
    \/ SearchSoldItems

SpecCache == InitCache /\ [][NextCache]_vars

----------------------------------------------------------------------------
(* The brand search under every behaviour of the listing source *)

Dress100 == Listing(DressTitle, Num(100), NoShipping, ConditionNew, {"FIXED_PRICE"})
Dress400 == Listing(DressTitle, Num(400), NoShipping, ConditionNew, {"FIXED_PRICE"})
Top100 == Listing(WomensTopTitle, Num(100), NoShipping, ConditionUsed, {"FIXED_PRICE"})
\* a record whose price float() rejects
MalformedRecord == Listing(DressTitle, Unparsable, NoShipping, ConditionNew, {"FIXED_PRICE"})

BrandResponses == { <<Dress100>>, <<Dress400, Top100>>, <<MalformedRecord>> }

BrandOutcomes ==
    { [kind |-> "ok", items |-> r] : r \in BrandResponses }
    \cup
    { [kind |-> k, items |-> <<>>] :
        k \in {"no_categories", "no_token", "throttled", "transport_error", "no_summaries",
                "null_summaries"} }

InitFanout ==
    /\ config \in Configs
    /\ NetworkIdle
    /\ user \in Users
    /\ item = IdleItem /\ sold_items = <<>> /\ analysis = NoAnalysis
    /\ shown = NothingShown /\ apc = "idle"
    /\ PipelineIdle
    /\ SizesIdle
    /\ CacheIdle
    /\ outcomes \in [1..MaxBrands -> BrandOutcomes]
    /\ fanout_result = NotCalled
    /\ find_result = NotCalled
    /\ fpc = "start"

CallSearchMultipleBrandsAsync ==
    /\ fpc = "start"
    /\ fanout_result' = SearchMultipleBrandsAsync(outcomes)
    /\ fpc' = "searched"
    /\ UNCHANGED <<config, user, avars, pvars, nvars, svars, cvars, outcomes, find_result>>

CallFindDealsForUserAsync ==
    /\ fpc = "start"
    /\ find_result' = FindDealsAsync(user, outcomes)
    /\ fpc' = "found"
    /\ UNCHANGED <<config, user, avars, pvars, nvars, svars, cvars, outcomes, fanout_result>>

NextFanout ==
    \/ CallSearchMultipleBrandsAsync
    \/ CallFindDealsForUserAsync

SpecFanout == InitFanout /\ [][NextFanout]_vars

----------------------------------------------------------------------------
(* The query cache at its capacity *)

\* queries told apart by their result limit
CapacityParam(n) ==
    [query |-> "dress", category_ids |-> None, min_price |-> None, max_price |-> None,
     conditions |-> None, limit |-> n]

\* the cache after n different queries were fetched at instant 0
Filled(n) == [i \in 1..n |-> TtlEntry(KeyOf(CapacityParam(i)), Fetched(0), 0)]

\* the oldest two, the newest and two new queries
CapacityParams ==
    {CapacityParam(n) : n \in {1, 2, CACHE_MAXSIZE, CACHE_MAXSIZE + 1, CACHE_MAXSIZE + 2}}

InitCapacity ==
    /\ config \in Configs
    /\ NetworkIdle
    /\ user = Rose
    /\ item = IdleItem /\ sold_items = <<>> /\ analysis = NoAnalysis
    /\ shown = NothingShown /\ apc = "idle"
    /\ PipelineIdle
    /\ SizesIdle
    /\ FanoutIdle
    /\ now = 0
    /\ ttl_inclusive \in BOOLEAN
    /\ ttl_cache \in {Filled(CACHE_MAXSIZE - 1), Filled(CACHE_MAXSIZE)}
    /\ sold_memo = [k \in SoldKeywords |-> NoEntry]
    /\ ncalls = 0 /\ prev_call = NoCall /\ last_call = NoCall

SearchItemsAtCapacity == SearchItemsOf(CapacityParams)

NextCapacity ==
    \/ Tick
    \/ SearchItemsAtCapacity

SpecCapacity == InitCapacity /\ [][NextCapacity]_vars

----------------------------------------------------------------------------
(* The deal search on the network: the coroutines of the brand fan-out on the *)
(* event loop's clock, the session they share, and the sold-items requests of *)
(* analyze_batch's worker threads                                             *)

SEARCH_DELAY == 1        \* await asyncio.sleep(1) before the request
COOL_DOWN == 5           \* await asyncio.sleep(5) after a 429
SESSION_TIMEOUT == 30    \* aiohttp.ClientTimeout(total=30)
NoTimer == -1
\* requests.request(...) is called without timeout=: the request never times out
REQUESTS_TIMEOUT == NoTimer
\* search_multiple_brands_async(..., gender: str = 'women')
DEFAULT_GENDER == "women"

NewTask(gender) ==
    [pc |-> "created", gender |-> gender, timer |-> NoTimer, sent |-> 0,
     throttled_at |-> NoTimer, ended_at |-> NoTimer, result |-> NotCalled]

Finish(task, result, t) ==
    [task EXCEPT !.pc = "done", !.timer = NoTimer, !.result = result, !.ended_at = t]

\* up to the first suspension: the query is built, a brand without category
\* ids for the gender returns [], the others sleep
BeginSearch(task, outcome, t) ==
    IF outcome.kind = "no_categories" THEN Finish(task, SearchItemsAsync(outcome), t)
    ELSE [task EXCEPT !.pc = "sleeping", !.timer = t + SEARCH_DELAY]

\* self.session.get(..., headers=self._get_headers())
SendRequest(task, outcome, t) ==
    IF GetHeadersRaises(outcome) THEN Finish(task, SearchItemsAsync(outcome), t)
    ELSE [task EXCEPT !.pc = "awaiting", !.timer = t + SESSION_TIMEOUT, !.sent = @ + 1]

ReceiveResponseNoCoolDown(task, outcome, t) ==
    [Finish(task, SearchItemsAsync(outcome), t) EXCEPT
        !.throttled_at = IF outcome.kind = "throttled" THEN t ELSE @]

\* if response.status == 429: await asyncio.sleep(5); return []
ReceiveResponse(task, outcome, t) ==
    IF outcome.kind = "throttled"
      THEN [task EXCEPT !.pc = "cooling", !.timer = t + COOL_DOWN, !.throttled_at = t]
      ELSE Finish(task, SearchItemsAsync(outcome), t)

\* asyncio.TimeoutError out of session.get or response.json(), caught by
\* except Exception
TimeOut(task, t) == Finish(task, ReturnEmptyOnException(Raised), t)

\* await asyncio.sleep(5); return []
AfterCoolDown(task, t) == Finish(task, Returned(<<>>), t)

\* aiohttp.ClientSession.close(); self.session = None
CloseSession(s) == "none"

\* _init_session: a session is created unless one is open
InitSession(s) == "open"

NetworkOutcomes ==
    { [kind |-> "ok", items |-> <<Dress100>>] }
    \cup
    { [kind |-> k, items |-> <<>>] :
        k \in {"no_categories", "no_token", "throttled", "transport_error", "no_summaries",
                "null_summaries"} }

Timed == {"sleeping", "awaiting", "cooling"}
Timers == {tasks[i].timer : i \in {j \in 1..Len(tasks) : tasks[j].pc \in Timed}}
AllTasksDone == \A i \in 1..Len(tasks) : tasks[i].pc = "done"
AllLookupsDone == \A i \in 1..Len(lookups) : lookups[i].pc = "done"

InitNetwork ==
    /\ config \in {c \in Configs : c.DEAL_PERCENTAGE_THRESHOLD = 20}
    /\ user \in {Rose, Thai}
    /\ item = IdleItem /\ sold_items = <<>> /\ analysis = NoAnalysis
    /\ shown = NothingShown /\ apc = "idle"
    /\ PipelineIdle
    /\ SizesIdle
    /\ CacheIdle
    /\ outcomes \in [1..MaxBrands -> NetworkOutcomes]
    /\ fanout_result = NotCalled /\ find_result = NotCalled /\ fpc = "idle"
    /\ session = "none" /\ clock = 0 /\ tasks = <<>> /\ requests_sent = <<>>
    /\ caller = [path |-> "none", pc |-> "start"]
    /\ lookups = <<>> /\ coroutines = <<>> /\ token = IdleToken

\* find_deals_for_user -> search_items_bulk(brands, size_filters) ->
\* search_multiple_brands_async(brands, size_filters): the coroutines are
\* created with the default gender
EnterFindDealsForUser ==
    /\ caller.pc = "start"
    /\ caller' = [path |-> "sync", pc |-> "gathering"]
    /\ tasks' = [i \in 1..Len(outcomes) |-> NewTask(DEFAULT_GENDER)]
    /\ UNCHANGED <<config, user, avars, pvars, svars, cvars, fvars, session, clock,
                   requests_sent, lookups, coroutines, token>>

\* find_deals_for_user_async: a session left open is closed, then
\* search_multiple_brands_async(brands, size_filters, gender=user.gender.value)
EnterFindDealsForUserAsync ==
    /\ caller.pc = "start"
    /\ caller' = [path |-> "async", pc |-> "gathering"]
    /\ session' = IF session = "open" THEN CloseSession(session) ELSE session
    /\ tasks' = [i \in 1..Len(outcomes) |-> NewTask(user.gender)]
    /\ UNCHANGED <<config, user, avars, pvars, svars, cvars, fvars, clock,
                   requests_sent, lookups, coroutines, token>>

BeginSearchItemsAsync(i) ==
    /\ tasks[i].pc = "created"
    /\ session' = IF session = "open" THEN session ELSE InitSession(session)
    /\ tasks' = [tasks EXCEPT ![i] = BeginSearch(@, outcomes[i], clock)]
    /\ UNCHANGED <<config, user, avars, pvars, svars, cvars, fvars, clock,
                   requests_sent, caller, lookups, coroutines, token>>

SendBrandRequest(i) ==
    /\ tasks[i].pc = "sleeping" /\ clock >= tasks[i].timer
    /\ tasks' = [tasks EXCEPT ![i] = SendRequest(@, outcomes[i], clock)]
    /\ requests_sent' =
          IF tasks'[i].sent > tasks[i].sent
            THEN Append(requests_sent, [brand |-> i, at |-> clock, gender |-> tasks[i].gender])
            ELSE requests_sent
    /\ UNCHANGED <<config, user, avars, pvars, svars, cvars, fvars, session, clock,
                   caller, lookups, coroutines, token>>

\* the response may arrive at any moment before the session's timeout, or never
ReceiveBrandResponse(i) ==
    /\ tasks[i].pc = "awaiting" /\ clock < tasks[i].timer
    /\ tasks' = [tasks EXCEPT ![i] = ReceiveResponse(@, outcomes[i], clock)]
    /\ UNCHANGED <<config, user, avars, pvars, svars, cvars, fvars, session, clock,
                   requests_sent, caller, lookups, coroutines, token>>

BrandRequestTimesOut(i) ==
    /\ tasks[i].pc = "awaiting" /\ clock >= tasks[i].timer
    /\ tasks' = [tasks EXCEPT ![i] = TimeOut(@, clock)]
    /\ UNCHANGED <<config, user, avars, pvars, svars, cvars, fvars, session, clock,
                   requests_sent, caller, lookups, coroutines, token>>

CoolDownEnds(i) ==
    /\ tasks[i].pc = "cooling" /\ clock >= tasks[i].timer
    /\ tasks' = [tasks EXCEPT ![i] = AfterCoolDown(@, clock)]
    /\ UNCHANGED <<config, user, avars, pvars, svars, cvars, fvars, session, clock,
                   requests_sent, caller, lookups, coroutines, token>>

\* the loop has nothing ready: time passes to the next timer
Advance ==
    /\ \A i \in 1..Len(tasks) : tasks[i].pc # "created"
    /\ Timers # {}
    /\ \A t \in Timers : t > clock
    /\ clock' = CHOOSE t \in Timers : \A other \in Timers : t <= other
    /\ UNCHANGED <<config, user, avars, pvars, svars, cvars, fvars, session, tasks,
                   requests_sent, caller, lookups, coroutines, token>>

\* gather has every result.  search_items_bulk closes its event loop and
\* leaves the session; find_deals_for_user_async closes the session in its
\* finally clause.
ReturnFromFindDeals ==
    /\ caller.pc = "gathering" /\ AllTasksDone
    /\ LET found == GatherResults([i \in 1..Len(tasks) |-> tasks[i].result])
       IN  caller' = [path |-> caller.path, pc |-> "returned",
                      result |-> IF caller.path = "sync" THEN FindDealsSync(user, found)
                                 ELSE FindDealsFrom(user, found)]
    /\ session' = IF caller.path = "async" /\ session = "open"
                    THEN CloseSession(session) ELSE session
    /\ UNCHANGED <<config, user, avars, pvars, svars, cvars, fvars, clock, tasks,
                   requests_sent, lookups, coroutines, token>>

\* analyze_batch: executor.map(self.analyze, items), a worker for each deal
EnterAnalyzeBatch ==
    /\ caller.pc = "returned" /\ caller.result.value # <<>>
    /\ caller' = [caller EXCEPT !.pc = "analyzing"]
    /\ lookups' = [i \in 1..Len(caller.result.value) |-> [pc |-> "queued", timer |-> NoTimer]]
    /\ UNCHANGED <<config, user, avars, pvars, svars, cvars, fvars, session, clock, tasks,
                   requests_sent, coroutines, token>>

\* analyze -> search_sold_items -> make_request -> requests.request(...)
SendSoldItemsRequest(i) ==
    /\ lookups[i].pc = "queued"
    /\ lookups' = [lookups EXCEPT ![i] = [pc |-> "in_flight", timer |-> REQUESTS_TIMEOUT]]
    /\ UNCHANGED <<config, user, avars, pvars, svars, cvars, fvars, session, clock, tasks,
                   requests_sent, caller, coroutines, token>>

\* the response, with whatever status, if one ever arrives
ReceiveSoldItemsResponse(i) ==
    /\ lookups[i].pc = "in_flight"
    /\ lookups' = [lookups EXCEPT ![i] = [pc |-> "done", timer |-> NoTimer]]
    /\ UNCHANGED <<config, user, avars, pvars, svars, cvars, fvars, session, clock, tasks,
                   requests_sent, caller, coroutines, token>>

ReturnFromAnalyzeBatch ==
    /\ caller.pc = "analyzing" /\ AllLookupsDone
    /\ caller' = [caller EXCEPT !.pc = "analyzed"]
    /\ UNCHANGED <<config, user, avars, pvars, svars, cvars, fvars, session, clock, tasks,
                   requests_sent, lookups, coroutines, token>>

\* what the event loop, the timers and the worker threads do by themselves
LocalStep ==
    \/ EnterFindDealsForUser
    \/ EnterFindDealsForUserAsync
    \/ \E i \in 1..Len(tasks) : BeginSearchItemsAsync(i)
    \/ \E i \in 1..Len(tasks) : SendBrandRequest(i)
    \/ \E i \in 1..Len(tasks) : BrandRequestTimesOut(i)
    \/ \E i \in 1..Len(tasks) : CoolDownEnds(i)
    \/ Advance
    \/ ReturnFromFindDeals
    \/ EnterAnalyzeBatch
    \/ \E i \in 1..Len(lookups) : SendSoldItemsRequest(i)
    \/ ReturnFromAnalyzeBatch

\* what happens only if the marketplace answers
Answer ==
    \/ \E i \in 1..Len(tasks) : ReceiveBrandResponse(i)
    \/ \E i \in 1..Len(lookups) : ReceiveSoldItemsResponse(i)

NextNetwork == LocalStep \/ Answer

SpecNetwork == InitNetwork /\ [][NextNetwork]_vars

\* the loop runs what is ready and timers expire; answers are not promised
SpecNetworkFair == SpecNetwork /\ WF_vars(LocalStep)

----------------------------------------------------------------------------
(* Concurrent calls of EbayFindingClient.search_items on one client: a call   *)
(* is suspended between its cache lookup and its store, at the awaits of the  *)
(* request, and other calls run meanwhile                                     *)

NewCoroutine(params) ==
    [pc |-> "start", params |-> params, started_at |-> NoTimer, requested |-> FALSE,
     hit |-> FALSE, response |-> NotCalled]

InitConcurrent ==
    /\ config \in {c \in Configs : c.DEAL_PERCENTAGE_THRESHOLD = 20}
    /\ user = Rose
    /\ item = IdleItem /\ sold_items = <<>> /\ analysis = NoAnalysis
    /\ shown = NothingShown /\ apc = "idle"
    /\ PipelineIdle
    /\ SizesIdle
    /\ FanoutIdle
    /\ now = 0
    /\ ttl_inclusive \in BOOLEAN
    /\ ttl_cache = <<>>
    /\ sold_memo = [k \in SoldKeywords |-> NoEntry]
    /\ ncalls = 0 /\ prev_call = NoCall /\ last_call = NoCall
    /\ session = "none" /\ clock = 0 /\ tasks = <<>> /\ requests_sent = <<>>
    /\ caller = IdleCaller /\ lookups = <<>> /\ token = IdleToken
    /\ coroutines \in [1..MaxCoroutines -> {NewCoroutine(p) : p \in SearchParams}]

\* cache_key = ...; if cache_key in self._cache: return self._cache[cache_key];
\* otherwise the payload is built and the request posted
LookUpThenPost(i) ==
    /\ coroutines[i].pc = "start"
    /\ LET cache_key == KeyOf(coroutines[i].params)
       IN  IF InTTLCache(ttl_cache, cache_key, now, ttl_inclusive)
             THEN /\ coroutines' = [coroutines EXCEPT ![i] =
                         [@ EXCEPT !.pc = "done", !.started_at = now, !.hit = TRUE,
                                   !.response = TtlValue(ttl_cache, cache_key)]]
                  /\ ttl_cache' = TtlTouch(ttl_cache, cache_key)
             ELSE /\ coroutines' = [coroutines EXCEPT ![i] =
                         [@ EXCEPT !.pc = "awaiting", !.started_at = now, !.requested = TRUE]]
                  /\ ttl_cache' = ttl_cache
    /\ UNCHANGED <<config, user, avars, pvars, svars, fvars, now, ttl_inclusive, sold_memo,
                   ncalls, prev_call, last_call, session, clock, tasks, requests_sent,
                   caller, lookups, token>>

\* the response is there: a 200 is parsed and stored, anything else is not
ResumeWithResponse(i) ==
    /\ coroutines[i].pc = "awaiting"
    /\ \E outcome \in {"ok", "api_error", "failed"} :
          LET cache_key == KeyOf(coroutines[i].params)
              response == IF outcome = "ok" THEN Fetched(now) ELSE EmptyResult(now)
          IN  /\ coroutines' = [coroutines EXCEPT ![i] =
                     [@ EXCEPT !.pc = "done", !.response = response]]
              /\ ttl_cache' = IF outcome = "failed" THEN ttl_cache
                               ELSE TtlStore(ttl_cache, cache_key, response, now, ttl_inclusive)
    /\ UNCHANGED <<config, user, avars, pvars, svars, fvars, now, ttl_inclusive, sold_memo,
                   ncalls, prev_call, last_call, session, clock, tasks, requests_sent,
                   caller, lookups, token>>

NextConcurrent ==
    \/ Tick
    \/ \E i \in 1..Len(coroutines) : LookUpThenPost(i)
    \/ \E i \in 1..Len(coroutines) : ResumeWithResponse(i)

SpecConcurrent == InitConcurrent /\ [][NextConcurrent]_vars

----------------------------------------------------------------------------
(* EbayAPI.validate_token: the validation request through make_request, the   *)
(* refresh through refresh_access_token and the re-validation.  A token is    *)
(* modelled by whether the client has one.                                    *)

\* the client before a validate_token call
TokenState(access_token, config_token, refresh_token, expiry_valid) ==
    [pc |-> "start", access_token |-> access_token, config_token |-> config_token,
     refresh_token |-> refresh_token, expiry_valid |-> expiry_valid,
     tried_refresh |-> FALSE, depth |-> 0, refresh_calls |-> 0, revalidations |-> 0,
     grants |-> 0, timer |-> NoTimer, result |-> FALSE, calls |-> 0]

\* make_request: get_access_token posts a refresh-token grant unless the token
\* has an expiry in the future, then requests.request(...) is awaited
MakeRequest(tk) ==
    [tk EXCEPT !.pc = "validating", !.timer = REQUESTS_TIMEOUT,
               !.grants = IF tk.access_token /\ tk.expiry_valid THEN @ ELSE @ + 1]

\* the frames return, the finally clause of each resets the guard
ReturnFromValidate(tk, value) ==
    [tk EXCEPT !.pc = "returned", !.depth = 0, !.tried_refresh = FALSE,
               !.timer = NoTimer, !.result = value]

\* validate_token up to its request
ValidateToken(tk) ==
    LET loaded == [tk EXCEPT !.access_token = IF @ THEN @ ELSE tk.config_token]
    IN  IF ~loaded.access_token
          THEN [loaded EXCEPT !.pc = "returned", !.result = FALSE]
          ELSE MakeRequest([loaded EXCEPT !.depth = @ + 1])

\* the except clause: one refresh, if there is a refresh token and none was tried
OnValidationError(tk) ==
    IF tk.refresh_token /\ ~tk.tried_refresh
      THEN [tk EXCEPT !.pc = "refreshing", !.tried_refresh = TRUE, !.timer = REQUESTS_TIMEOUT,
                      !.refresh_calls = @ + 1, !.grants = @ + 1]
      ELSE ReturnFromValidate(tk, FALSE)

\* what make_request came back with
OnValidationAnswer(tk, outcome) ==
    CASE outcome = "grant_refused" -> OnValidationError(tk)
      [] outcome = "http_error" -> OnValidationError([tk EXCEPT !.expiry_valid = TRUE])
      [] outcome = "empty_body" -> ReturnFromValidate([tk EXCEPT !.expiry_valid = TRUE], FALSE)
      [] outcome = "ok" -> ReturnFromValidate([tk EXCEPT !.expiry_valid = TRUE], TRUE)

\* if self.refresh_access_token(): return self.validate_token()
OnRefreshAnswer(tk, outcome) ==
    IF outcome = "refreshed"
      THEN ValidateToken([tk EXCEPT !.access_token = TRUE, !.revalidations = @ + 1])
      ELSE ReturnFromValidate(tk, FALSE)

InitToken ==
    /\ config \in {c \in Configs : c.DEAL_PERCENTAGE_THRESHOLD = 20}
    /\ user = Rose
    /\ item = IdleItem /\ sold_items = <<>> /\ analysis = NoAnalysis
    /\ shown = NothingShown /\ apc = "idle"
    /\ PipelineIdle
    /\ SizesIdle
    /\ CacheIdle
    /\ FanoutIdle
    /\ session = "none" /\ clock = 0 /\ tasks = <<>> /\ requests_sent = <<>>
    /\ caller = IdleCaller /\ lookups = <<>> /\ coroutines = <<>>
    /\ token \in {TokenState(a, c, r, e) : a, c, r, e \in BOOLEAN}

CallValidateToken ==
    /\ token.pc = "start"
    /\ token' = ValidateToken([token EXCEPT !.calls = @ + 1, !.refresh_calls = 0,
                                             !.revalidations = 0, !.grants = 0])
    /\ UNCHANGED <<config, user, avars, pvars, svars, cvars, fvars, session, clock, tasks,
                   requests_sent, caller, lookups, coroutines>>

\* the validation request is answered, if it ever is
ValidationAnswered ==
    /\ token.pc = "validating"
    /\ \E outcome \in {"grant_refused", "http_error", "empty_body", "ok"} :
          /\ outcome = "grant_refused" => ~(token.access_token /\ token.expiry_valid)
          /\ token' = OnValidationAnswer(token, outcome)
    /\ UNCHANGED <<config, user, avars, pvars, svars, cvars, fvars, session, clock, tasks,
                   requests_sent, caller, lookups, coroutines>>

\* the refresh request is answered, if it ever is
RefreshAnswered ==
    /\ token.pc = "refreshing"
    /\ \E outcome \in {"refreshed", "refused"} : token' = OnRefreshAnswer(token, outcome)
    /\ UNCHANGED <<config, user, avars, pvars, svars, cvars, fvars, session, clock, tasks,
                   requests_sent, caller, lookups, coroutines>>

\* the client is used again
NextInvocation ==
    /\ token.pc = "returned" /\ token.calls < MaxCalls
    /\ token' = [token EXCEPT !.pc = "start"]
    /\ UNCHANGED <<config, user, avars, pvars, svars, cvars, fvars, session, clock, tasks,
                   requests_sent, caller, lookups, coroutines>>

NextToken ==
    \/ CallValidateToken
    \/ ValidationAnswered
    \/ RefreshAnswered
    \/ NextInvocation

SpecToken == InitToken /\ [][NextToken]_vars

\* a call that is made runs; an answer to a request is not promised
SpecTokenFair == SpecToken /\ WF_vars(CallValidateToken)

----------------------------------------------------------------------------
(* Properties *)

Analysed == apc \in {"analyze", "analyze_item_async", "print_deal", "search"}

\* C1: every PriceAnalysis that analyze or analyze_item_async returns has
\* real_profit = median_price - total_cost - ebay_fees.
C1_RealProfitIdentity ==
    analysis # NoAnalysis =>
        analysis.real_profit = analysis.median_price - analysis.total_cost - analysis.ebay_fees

C1_Witness ==
    /\ apc = "analyze" /\ analysis # NoAnalysis
    /\ analysis.ebay_fees > 0 /\ analysis.real_profit < 0

\* C2: the ROI of a PriceAnalysis is real_profit / total_cost * 100 and exists
\* only for total_cost > 0; with total_cost <= 0 no analysis carries an ROI.
C2_RoiOnlyForPositiveCost ==
    analysis # NoAnalysis =>
        /\ analysis.total_cost > 0
        /\ analysis.roi = Ratio(analysis.real_profit * 100, analysis.total_cost)

\* C3: the good-deal flag is set exactly when real_profit > 0 and
\* roi >= DEAL_PERCENTAGE_THRESHOLD.
C3_GoodDealFlag ==
    analysis # NoAnalysis =>
        (analysis.is_good_deal <=>
            (analysis.real_profit > 0 /\ RatioGE(analysis.roi, config.DEAL_PERCENTAGE_THRESHOLD)))

\* C4: a listing whose sold sample has fewer than 2 positive, parseable prices
\* gets no PriceAnalysis, and no PriceAnalysis has sample_size < 2.
C4_InsufficientDataExcluded ==
    /\ (Analysed /\ Len(UsablePrices(sold_items)) < 2) => analysis = NoAnalysis
    /\ analysis # NoAnalysis => analysis.sample_size >= 2

C6_ScenarioA ==
    ( /\ apc = "analyze"
      /\ item.title.present
      /\ item.price = Num(100)
      /\ item.shipping = Shipping("FIXED", Num(0))
      /\ sold_items = <<Num(140), Num(150), Num(160)>>
      /\ config.DEAL_PERCENTAGE_THRESHOLD = 20 )
    => /\ analysis # NoAnalysis
       /\ analysis.median_price = 1500000
       /\ analysis.ebay_fees = 193500
       /\ analysis.total_cost = 1000000
       /\ analysis.real_profit = 306500
       /\ RatioIs(analysis.roi, 613, 20)
       /\ analysis.is_good_deal

\* C7: the shipping cost inside total_cost follows the shipping descriptor
\* (FIXED: the stated cost; any other type: 12.99; none: 0) in analyze,
\* analyze_item_async, print_deal and the web deal.
C7_ShippingResolution ==
    LET resolved == IF ~item.shipping.present THEN 0
                    ELSE IF item.shipping.type = "FIXED" THEN ParseFloat(item.shipping.cost)
                    ELSE ESTIMATED_SHIPPING
    IN  /\ (apc \in {"analyze", "analyze_item_async"} /\ analysis # NoAnalysis)
              => analysis.total_cost = ParseFloat(item.price) + resolved
        /\ (apc = "print_deal" /\ shown # ShowError)
              => shown.total_cost = ParseFloat(item.price) + resolved
        /\ (apc = "search" /\ shown # ShowError /\ shown # NothingShown)
              => shown.total_cost = ParseFloat(item.price) + resolved + analysis.ebay_fees

\* C8: with BEST_OFFER the negotiated price 0.8 * price and the negotiated
\* profit and ROI are exposed next to the plain profit and ROI.
C8_NegotiatedAlongside ==
    (apc \in {"print_deal", "search"} /\ BestOfferEnabled(item)
        /\ shown # ShowError /\ shown # NothingShown)
    => /\ {"roi", "real_profit", "negotiated_roi", "negotiated_profit", "negotiated_price"} \subseteq DOMAIN shown
       /\ shown.negotiated_price = (ParseFloat(item.price) * 8) \div 10

\* C9: every listing reported as a deal has an ROI of at least the user's
\* minimum ROI.
C9_ReportedDealsClearMinRoi ==
    \A i \in 1..Len(deals) : RatioGE(deals[i].analysis.roi, user.min_roi)

PriceAccepted(it) ==
    it.price.parses /\ ParseFloat(it.price) > 0 /\ ParseFloat(it.price) <= user.max_price

TitleHolds(it, keyword) ==
    it.title.present /\ Contains(Lower(it.title.text), Lower(keyword))

\* C11: no listing returned by find_deals_for_user or find_deals_for_user_async
\* has a title containing one of the user's excluded keywords as a
\* case-insensitive substring, whatever the letter case of keyword and title.
C11_NoExcludedKeywordInTitle ==
    \A i \in 1..Len(filtered_items) :
        \A k \in 1..Len(user.excluded_keywords) :
            ~TitleHolds(filtered_items[i], user.excluded_keywords[k])

C11_Witness ==
    /\ pc = "found"
    /\ filtered_items # <<>>
    /\ \E i \in 1..Len(items) : \E k \in 1..Len(user.excluded_keywords) :
          /\ user.excluded_keywords[k] # Lower(user.excluded_keywords[k])
          /\ items[i].title.present
          /\ items[i].title.text # Lower(items[i].title.text)
          /\ TitleHolds(items[i], user.excluded_keywords[k])
          /\ ~Contains(Lower(items[i].title.text), user.excluded_keywords[k])
          /\ PriceAccepted(items[i])
          /\ \A j \in 1..Len(filtered_items) : filtered_items[j] # items[i]

\* C15: a UserPreferences constructed with a non-positive price ceiling has
\* max_price = +infinity, so the deal search rejects no positively priced
\* listing on price-ceiling grounds.
C15_NonPositiveCeilingIsInfinite ==
    \A a \in UserArgs :
        (user = NewUser(a.id, a.gender, a.args) /\ a.args.max_price <= 0)
        => /\ user.max_price = Infinity
           /\ pc # "start"
                => \A i \in 1..Len(items) :
                      (items[i].price.parses /\ ParseFloat(items[i].price) > 0)
                      => Verdict(items[i], user, mode) # "price"

\* the gender-signal words for women's clothing, as the men's factory user excludes them
WomensTerms == { <<"w", "o", "m", "e", "n", "s">>, <<"w", "o", "m", "e", "n">>, <<"f", "e", "m", "a", "l", "e">>, <<"g", "i", "r", "l", "s">> }

\* w stands in s as a word of its own, delimited by spaces or the ends of s
HasWord(s, w) ==
    \E i \in 0..(Len(s) - Len(w)) :
        /\ \A j \in 1..Len(w) : s[i + j] = w[j]
        /\ i = 0 \/ s[i] = " "
        /\ i + Len(w) = Len(s) \/ s[i + Len(w) + 1] = " "

SignalsGender(it, gender) ==
    \E term \in (IF gender = "men" THEN MensTerms ELSE WomensTerms) : HasWord(FilterTitle(it), term)

OppositeGender(gender) == IF gender = "men" THEN "women" ELSE "men"

\* the listing reaches the gender check of the path and is rejected by it: the
\* men's terms test of find_deals_for_user; find_deals_for_user_async has none
GenderCheckRejects(it, u, path) ==
    /\ it.price.parses /\ ~PriceRejected(ParseFloat(it.price), u)
    /\ ~(\E word \in ExcludedWords(u) : Contains(FilterTitle(it), word))
    /\ path = "sync"
    /\ \E term \in MensTerms : Contains(FilterTitle(it), term)

\* C12: on both paths a listing whose title signals the gender opposite to the
\* user's is rejected, and a listing whose title signals only the user's own
\* gender is never rejected by the gender check.
C12_GenderCheck ==
    pc # "start" =>
        \A i \in 1..Len(items) :
            /\ SignalsGender(items[i], OppositeGender(user.gender))
                => \A j \in 1..Len(filtered_items) : filtered_items[j] # items[i]
            /\ (SignalsGender(items[i], user.gender) /\ ~SignalsGender(items[i], OppositeGender(user.gender)))
                => ~GenderCheckRejects(items[i], user, mode)

AllSizes == sizes.tops \o sizes.bottoms_waist \o sizes.bottoms_letter \o sizes.outerwear

LetterSizeEntries == sizes.tops \o sizes.bottoms_letter \o sizes.outerwear

SizeWord(letter) ==
    CASE letter = <<"S">> -> <<"S", "m", "a", "l", "l">>
      [] letter = <<"M">> -> <<"M", "e", "d", "i", "u", "m">>
      [] letter = <<"L">> -> <<"L", "a", "r", "g", "e">>

DressSize(letter) ==
    CASE letter = <<"S">> -> <<"4">>
      [] letter = <<"M">> -> <<"8">>
      [] letter = <<"L">> -> <<"1", "2">>

LetterSizes == { <<"S">>, <<"M">>, <<"L">> }

\* C13: on both find-deals paths the size filters hold, for each letter size
\* S, M or L of the user, the letter and its spelled-out word, and the numeric
\* dress size (S->4, M->8, L->12) exactly when the gender is women (for men no
\* dress size appears unless a numeric size was supplied).
C13_LetterSizeExpansion ==
    spc \in {"sync", "async"} =>
        \A i \in 1..Len(LetterSizeEntries) :
            LET letter == LetterSizeEntries[i]
            IN  letter \in LetterSizes =>
                  /\ letter \in size_filters
                  /\ SizeWord(letter) \in size_filters
                  /\ user.gender = "women" => DressSize(letter) \in size_filters
                  /\ (user.gender = "men" /\ \A k \in 1..Len(AllSizes) : ~IsDigit(AllSizes[k]))
                        => DressSize(letter) \notin size_filters

\* C14: a size that is neither S, M or L nor numeric (XL, XS, 32W) is in the
\* output of _get_size_filters unchanged.
C14_UnknownSizePassesThrough ==
    spc = "async" =>
        \A i \in 1..Len(AllSizes) :
            (~IsDigit(AllSizes[i]) /\ Upper(AllSizes[i]) \notin LetterSizes)
            => AllSizes[i] \in size_filters

Range(f) == {f[i] : i \in DOMAIN f}

\* two search_items queries differing at most in the order of their lists
SameUpToOrder(p, q) ==
    /\ p.query = q.query /\ p.min_price = q.min_price /\ p.max_price = q.max_price
    /\ p.limit = q.limit
    /\ Len(p.category_ids) = Len(q.category_ids) /\ Range(p.category_ids) = Range(q.category_ids)
    /\ Len(p.conditions) = Len(q.conditions) /\ Range(p.conditions) = Range(q.conditions)

\* the last two queries went to the same interface, the earlier one was
\* fetched from the network successfully
FetchedThenAsked(api) ==
    /\ prev_call.api = api /\ last_call.api = api
    /\ ~prev_call.hit /\ prev_call.response.ok

\* C16: two search_items queries that differ only in the order of conditions
\* or of category ids have the same cache key, and the second one, issued
\* within the TTL of the first, is served from the cache.
C16_OrderIndependentFingerprint ==
    (FetchedThenAsked("search_items") /\ SameUpToOrder(prev_call.params, last_call.params))
    => /\ KeyOf(prev_call.params) = KeyOf(last_call.params)
       /\ last_call.at - prev_call.at < CACHE_TTL => last_call.hit

\* C17: a memoized response, of search_items or of search_sold_items, is
\* served only while younger than the TTL: an identical query within the TTL
\* of a successful fetch is served from the cache, one at or after the TTL is
\* refetched.
C17_ServedOnlyWithinTTL ==
    /\ (last_call.api # "none" /\ last_call.hit)
        => last_call.at - last_call.response.fetched_at < CACHE_TTL
    /\ \A api \in {"search_items", "search_sold_items"} :
        (FetchedThenAsked(api) /\ prev_call.params = last_call.params)
        => /\ last_call.at - prev_call.at < CACHE_TTL => last_call.hit
           /\ last_call.at - prev_call.at >= CACHE_TTL => ~last_call.hit

\* C18: in search_multiple_brands_async the failure of one brand's query
\* leaves the fan-out unfailed and every item of every other brand's
\* successful query in the flattened result.
C18_BrandFailureIsolated ==
    fpc = "searched" =>
        /\ ~fanout_result.raised
        /\ \A i \in 1..Len(outcomes) :
              outcomes[i].kind = "ok" =>
                  \A k \in 1..Len(outcomes[i].items) :
                      \E j \in 1..Len(fanout_result.value) :
                          fanout_result.value[j] = outcomes[i].items[k]

\* C20: find_deals_for_user_async returns a list and raises nothing, for
\* every user and every behaviour of the listing source.
C20_AsyncFindAlwaysReturnsList ==
    fpc = "found" => (~find_result.raised /\ find_result.is_list)

C20_Witness ==
    /\ fpc = "found"
    /\ \E i \in 1..Len(outcomes) : outcomes[i].kind = "transport_error"
    /\ \E i \in 1..Len(outcomes) : outcomes[i].kind = "null_summaries"
    /\ find_result = Returned(<<>>)

\* the analysis of one listing on its own, on the path the batch ran on
SingleAnalysis(it) ==
    IF mode = "sync"
      THEN Analyze(it, IF it.title \in DOMAIN sold_items THEN sold_items[it.title] ELSE <<>>, config)
      ELSE AnalyzeItemAsync(it)

Succeeded == SelectSeq(filtered_items, LAMBDA it : SingleAnalysis(it) # NoAnalysis)

\* C19: analyze_batch and analyze_batch_async return exactly the listings
\* whose own analysis succeeded, in input order, each paired with its own
\* analysis; a listing whose analysis fails is the only one removed.
C19_BatchKeepsSuccessesInOrder ==
    pc \in {"analyzed", "done"} =>
        /\ Len(analyzed_items) = Len(Succeeded)
        /\ \A i \in 1..Len(analyzed_items) :
              /\ analyzed_items[i][1] = Succeeded[i]
              /\ analyzed_items[i][2] = SingleAnalysis(Succeeded[i])

C19_Witness ==
    /\ pc = "analyzed"
    /\ Len(filtered_items) = 2
    /\ SingleAnalysis(filtered_items[1]) = NoAnalysis
    /\ SingleAnalysis(filtered_items[2]) # NoAnalysis
    /\ Len(analyzed_items) = 1
    /\ analyzed_items[1][1] = filtered_items[2]

\* C26: in the filter of find_deals_for_user and find_deals_for_user_async
\* every input listing is either returned or counted in one rejection
\* counter: inputs = returned + price_filtered + excluded_filtered, listings
\* with an unparsable price included.
C26_EveryListingAccounted ==
    pc # "start" =>
        Len(items) = Len(filtered_items) + price_filtered + excluded_filtered

\* the last two queries were the same query to the same interface, and the
\* earlier one went to the network and failed
FailedThenAsked(api) ==
    /\ prev_call.api = api /\ last_call.api = api
    /\ prev_call.params = last_call.params
    /\ ~prev_call.hit /\ ~prev_call.response.ok

\* C27: a failed fetch of search_items or search_sold_items is not memoized:
\* the next identical query goes to the network again.
C27_FailureNotMemoized ==
    \A api \in {"search_items", "search_sold_items"} :
        FailedThenAsked(api) => ~last_call.hit

HoldsKey(cache, key) == \E i \in 1..Len(cache) : cache[i].key = key

\* the last call stored the response it fetched
StoredByLastCall ==
    /\ last_call.api = "search_items" /\ ~last_call.hit
    /\ HoldsKey(ttl_cache, KeyOf(last_call.params))

\* C21: the query cache never holds more than its 100 entries, and an
\* insertion at capacity evicts the least recently used unexpired entry, a
\* lookup hit counting as a use: the entry the previous call read or stored
\* is still there after the insertion, the oldest unused one is not.
C21_CapacityAndLruEviction ==
    /\ Len(ttl_cache) <= CACHE_MAXSIZE
    /\ (/\ StoredByLastCall
        /\ prev_call.api = "search_items"
        /\ prev_call.hit \/ prev_call.response.ok
        /\ last_call.at - prev_call.response.fetched_at < CACHE_TTL)
       => HoldsKey(ttl_cache, KeyOf(prev_call.params))

C21_Witness ==
    /\ StoredByLastCall
    /\ prev_call.api = "search_items" /\ prev_call.hit
    /\ prev_call.params = CapacityParam(1)
    /\ last_call.params = CapacityParam(CACHE_MAXSIZE + 1)
    /\ Len(ttl_cache) = CACHE_MAXSIZE
    /\ HoldsKey(ttl_cache, KeyOf(CapacityParam(1)))
    /\ ~HoldsKey(ttl_cache, KeyOf(CapacityParam(2)))

\* C22: between any two successive brand queries sent by the EbayAPI client
\* at least the delay it sleeps before a request elapses, also when the
\* queries of several brands run concurrently in one fan-out.
C22_MinimumDelayBetweenRequests ==
    \A i, j \in 1..Len(requests_sent) :
        i < j => requests_sent[j].at - requests_sent[i].at >= SEARCH_DELAY

Returning == {"returned", "analyzing", "analyzed"}

C23_Safe ==
    \A i \in 1..Len(tasks) :
        /\ tasks[i].sent <= 1
        /\ tasks[i].pc = "cooling" => tasks[i].timer = tasks[i].throttled_at + COOL_DOWN
        /\ (tasks[i].throttled_at # NoTimer /\ tasks[i].pc = "done") =>
              /\ tasks[i].result = Returned(<<>>)
              /\ tasks[i].ended_at >= tasks[i].throttled_at + COOL_DOWN
        /\ tasks[i].throttled_at # NoTimer => tasks[i].pc \in {"cooling", "done"}

C24_NoSessionAfterReturn ==
    caller.pc \in Returning => session = "none"

\* C25: every request in flight during a batch, a brand query or a sold-items
\* lookup, has a timeout after which its caller goes on.
C25_EveryRequestHasTimeout ==
    /\ \A i \in 1..Len(tasks) : tasks[i].pc = "awaiting" => tasks[i].timer # NoTimer
    /\ \A i \in 1..Len(lookups) : lookups[i].pc = "in_flight" => lookups[i].timer # NoTimer

\* C29: every brand query made for a user is built with that user's gender,
\* on the synchronous and on the asynchronous path.
C29_SearchUsesUsersGender ==
    /\ \A i \in 1..Len(tasks) : tasks[i].gender = user.gender
    /\ \A i \in 1..Len(requests_sent) : requests_sent[i].gender = user.gender

\* two calls with the same fingerprint, started within the TTL of each other,
\* both answered successfully
Twins(i, j) ==
    /\ i # j
    /\ coroutines[i].pc = "done" /\ coroutines[j].pc = "done"
    /\ KeyOf(coroutines[i].params) = KeyOf(coroutines[j].params)
    /\ coroutines[i].started_at <= coroutines[j].started_at
    /\ coroutines[j].started_at - coroutines[i].started_at < CACHE_TTL
    /\ coroutines[i].response.ok /\ coroutines[j].response.ok

\* C28: of two search_items calls with the same fingerprint within the TTL at
\* most one posts a request, also when the second starts while the first
\* awaits its response; and the entry cached for a fingerprint is always the
\* whole response of one fetch for that fingerprint.
C28_OneRequestPerFingerprint ==
    /\ \A i, j \in 1..Len(coroutines) :
          Twins(i, j) => ~(coroutines[i].requested /\ coroutines[j].requested)
    /\ \A e \in 1..Len(ttl_cache) :
          \E i \in 1..Len(coroutines) :
              /\ coroutines[i].requested /\ coroutines[i].pc = "done"
              /\ KeyOf(coroutines[i].params) = ttl_cache[e].key
              /\ coroutines[i].response = ttl_cache[e].response

C30_Bounded ==
    /\ token.refresh_calls <= 1
    /\ token.revalidations <= 1
    /\ token.pc = "returned" => ~token.tried_refresh

\* C30: validate_token always terminates; in one top-level invocation it
\* attempts at most one refresh and re-validates at most once, whatever the
\* validation and the refresh come back with, and the _tried_refresh guard is
\* false when the invocation returns.
C30_ValidateTokenBoundedAndEnds ==
    /\ []C30_Bounded
    /\ (token.pc = "start") ~> (token.pc = "returned")

============================================================================
